---- MODULE Spec2Model ----
(***************************************************************************)
(* Verification model of the Sudoku tunnel's per-connection protocol       *)
(* engine: handshake freshness check, server handshake and fallback        *)
(* recorder (three entry points), Sudoku stream codec and packed 6-bit     *)
(* codec.                                                                  *)
(*                                                                         *)
(* Several specifications share the variables below; each specification    *)
(* moves its own group of variables and leaves the others at their         *)
(* initial values.                                                         *)
(***************************************************************************)
EXTENDS Integers, Sequences, FiniteSets, TLC

VARIABLES
    \* ---- clock and timestamp check ----
    tNow,        \* time.Now().Unix() as an int64, 8 big-endian bytes
    tField,      \* the 8-byte big-endian timestamp field of the prelude
    tVerdict,    \* "none" | "accepted" | "rejected"
    \* ---- server handshake ----
    cfg,         \* the server's configuration and entry point
    wire,        \* the bytes the peer sends on the raw connection, in order
    srv,         \* the state of the server's connection handler
    connNo,      \* 1 for the first connection, 2 for a replay of its bytes
    \* ---- codecs ----
    cod,         \* a writer and a reader of the Sudoku stream codec on a pipe
    pk,          \* a writer and a reader of the packed 6-bit codec on a pipe
    \* ---- server connection handler ----
    app,         \* handleServerConn after the handshake, and its UoT session
    \* ---- concurrent writers ----
    wr,          \* two tasks calling Write on one codec instance
    \* ---- handshake deadline ----
    dl,          \* the handshake's read deadline on the raw socket, and a peer that may stall
    \* ---- configuration ----
    conf,        \* a configuration on its way from its source to a connection
    \* ---- name resolution ----
    dns,         \* the address resolver: its cache, the clock and the calls of Resolve in flight
    \* ---- short links ----
    sl,          \* a client configuration, the short link built from it and the configuration decoded from the link
    \* ---- client UoT session ----
    uc,          \* the client's UoT session (uotClientSession)
    \* ---- client dialer ----
    dc           \* a client dial in progress (tunnel dialer or API Dial)

vars == <<tNow, tField, tVerdict, cfg, wire, srv, connNo, cod, pk, app, wr, dl, conf, dns, sl, uc, dc>>

\* What the actions of each specification leave alone.
FrameTime == <<tNow, tField, cfg, wire, srv, connNo, cod, pk, app, wr, dl, conf, dns, sl, uc, dc>>
FrameHS == <<tField, tVerdict, cfg, wire, cod, pk, app, wr, dl, conf, dns, sl, uc, dc>>
FrameCodec == <<tNow, tField, tVerdict, cfg, wire, srv, connNo, pk, app, wr, dl, conf, dns, sl, uc, dc>>
FramePacked == <<tNow, tField, tVerdict, cfg, wire, srv, connNo, cod, app, wr, dl, conf, dns, sl, uc, dc>>

(***************************************************************************)
(* 64-bit two's complement integers as 8 big-endian bytes (index 1 is the  *)
(* most significant byte), as binary.BigEndian.Uint64 reads them.  Go's    *)
(* int64 arithmetic wraps modulo 2^64.                                     *)
(***************************************************************************)
Byte == 0..255

Zero64 == <<0, 0, 0, 0, 0, 0, 0, 0>>
One64 == <<0, 0, 0, 0, 0, 0, 0, 1>>
MinInt64 == <<128, 0, 0, 0, 0, 0, 0, 0>>

\* The small non-negative integer n (0..255) as an int64.
Small64(n) == <<0, 0, 0, 0, 0, 0, 0, n>>

RECURSIVE AddBytes(_, _, _, _)
\* Bytes 1..i of a + b, with carry c into byte i (ripple from the low byte).
AddBytes(a, b, i, c) ==
    IF i = 0 THEN <<>>
    ELSE LET s == a[i] + b[i] + c
         IN  Append(AddBytes(a, b, i - 1, s \div 256), s % 256)

Add64(a, b) == AddBytes(a, b, 8, 0)
Not64(a) == [i \in 1..8 |-> 255 - a[i]]
Neg64(a) == Add64(Not64(a), One64)
Sub64(a, b) == Add64(a, Neg64(b))
IsNeg64(a) == a[1] >= 128

\* Unsigned comparisons on the 8 bytes.
RECURSIVE ULeqFrom(_, _, _)
ULeqFrom(a, b, i) ==
    IF i > 8 THEN TRUE
    ELSE IF a[i] < b[i] THEN TRUE
    ELSE IF a[i] > b[i] THEN FALSE
    ELSE ULeqFrom(a, b, i + 1)
ULeq(a, b) == ULeqFrom(a, b, 1)

\* Signed a > b.
SignedGt64(a, b) ==
    IF IsNeg64(a) # IsNeg64(b) THEN IsNeg64(b)
    ELSE ~ULeq(a, b)

\* Maximum accepted clock skew in seconds.
MaxSkewSeconds == 60

\* func abs(x int64) int64: -x wraps for the minimum int64.
abs(x) == IF IsNeg64(x) THEN Neg64(x) ELSE x

\* ts := int64(binary.BigEndian.Uint64(handshakeBuf[:8]));
\* the prelude is rejected when abs(time.Now().Unix()-ts) > 60.
TimestampStale(now, field) ==
    SignedGt64(abs(Sub64(now, field)), Small64(MaxSkewSeconds))

(***************************************************************************)
(* The distance |now - ts| over the integers (no wrap-around), for a       *)
(* non-negative now and ts the field read as a signed 64-bit number.  It   *)
(* lies in 0 .. 2^64-1 and is returned as an unsigned 64-bit number.       *)
(***************************************************************************)
TrueSkew(now, field) ==
    IF IsNeg64(field) THEN Sub64(now, field)
    ELSE IF ULeq(field, now) THEN Sub64(now, field)
    ELSE Sub64(field, now)

UGt(x, n) == (\E i \in 1..7 : x[i] # 0) \/ x[8] > n

\* Server clock values (seconds since the epoch, around 2025).
NowSet ==
    { <<0, 0, 0, 0, 105, 8, 0, 20>>,
      <<0, 0, 0, 0, 105, 8, 255, 230>>,
      <<0, 0, 0, 0, 105, 9, 17, 128>> }

(***************************************************************************)
(* Sequences of wire positions.                                            *)
(***************************************************************************)
Min(a, b) == IF a < b THEN a ELSE b
Take(s, n) == SubSeq(s, 1, Min(n, Len(s)))
Drop(s, n) == SubSeq(s, Min(n, Len(s)) + 1, Len(s))
\* The positions a, a+1, ..., b in order (empty when b < a).
Range(a, b) == [i \in 1..(b - a + 1) |-> a + i - 1]

(***************************************************************************)
(* Scaled sizes.  The program's buffers are 4 KiB (bufio's default and the *)
(* probe's read chunk), 32 KiB (the codec's read buffer) and 64 KiB (the   *)
(* probe window); the model keeps their order.                             *)
(***************************************************************************)
BufSize == 5                       \* bufio.NewReader default buffer (4096)
ReadChunk == BufSize               \* selectTableByProbe: readChunk = 4 * 1024
IOBufferSize == BufSize + 2        \* sudoku.IOBufferSize = 32 * 1024
MaxProbeBytes == 2 * IOBufferSize  \* selectTableByProbe: maxProbeBytes = 64 * 1024
MaxHeaderBytes == BufSize + 3      \* httpmask.ConsumeHeader's bound on a header
PreludeUnits == 2                  \* the 16-byte prelude, in 8-byte units
PeekLen == 4                       \* bufReader.Peek(4)

DownlinkModePure == 1
DownlinkModePacked == 2

\* func downlinkModeByte(cfg) byte
downlinkModeByte(pure) == IF pure THEN DownlinkModePure ELSE DownlinkModePacked

(***************************************************************************)
(* Wire bytes.  A byte of the HTTP mask is one of the request-line start   *)
(* bytes "P" "O" "S" "T", a header byte "hdr" or the blank line "end".     *)
(* A codec byte is a padding byte "pad", a byte no table decodes "junk",   *)
(* or "enc": the Sudoku encoding under table t of one unit of an AEAD      *)
(* record sealed with key; u names the unit, ts is its timestamp field and *)
(* m its mode (or address validity) byte.                                  *)
(***************************************************************************)
RawByte(c) == [k |-> c, t |-> 0, key |-> "", u |-> "", ts |-> Zero64, m |-> 0]
EncByte(t, key, u, ts, m) == [k |-> "enc", t |-> t, key |-> key, u |-> u, ts |-> ts, m |-> m]

\* httpmask.WriteRandomRequestHeader: request line, header lines, blank line.
MaskHeader == <<RawByte("P"), RawByte("O"), RawByte("S"), RawByte("T"),
                RawByte("hdr"), RawByte("end")>>

\* ClientHandshake: the prelude (timestamp, then key hash), written as one
\* record, then the downlink mode byte; the Sudoku writer may interleave padding.
ClientHandshake_modeFirst(table, key, ts, pure) ==
    <<EncByte(table, key, "mode", Zero64, downlinkModeByte(pure)),
      EncByte(table, key, "pre", ts, 0), RawByte("pad")>>
    \o [i \in 1..(PreludeUnits - 1) |-> EncByte(table, key, "pre", Zero64, 0)]
ClientHandshake(table, key, ts, pure) ==
    <<EncByte(table, key, "pre", ts, 0), RawByte("pad")>>
    \o [i \in 1..(PreludeUnits - 1) |-> EncByte(table, key, "pre", Zero64, 0)]
    \o <<EncByte(table, key, "mode", Zero64, downlinkModeByte(pure))>>

\* dialBase + ClientHandshake + StandardDialer.Dial: mask, handshake, address.
ClientWire(mask, table, key, ts, pure) ==
    (IF mask THEN MaskHeader ELSE <<>>)
    \o ClientHandshake(table, key, ts, pure)
    \o <<EncByte(table, key, "addr", Zero64, 1)>>

ServerKey == "k1"
StaleSkew == Neg64(Small64(120))

\* What peers send: honest clients of every table and mode, clients with a
\* stale or wrapped clock or another key, connections cut short, and probers
\* (junk, an endless header, padding without end).
WireSet(now) ==
    { ClientWire(mk, t, ServerKey, now, pure) :
        mk \in BOOLEAN, t \in 1..3, pure \in BOOLEAN }
    \cup { ClientWire(mk, 1, ServerKey, Add64(now, d), pure) :
        mk \in BOOLEAN, pure \in BOOLEAN, d \in {StaleSkew, MinInt64} }
    \cup { ClientWire(FALSE, t, "k2", now, TRUE) : t \in 1..2 }
    \cup { Take(ClientWire(mk, 1, ServerKey, now, TRUE), n) :
        mk \in BOOLEAN, n \in 0..(Len(MaskHeader) + PreludeUnits + 2) }
    \cup { <<RawByte("junk"), RawByte("junk"), RawByte("pad"), RawByte("junk"), RawByte("junk")>>,
           Take(MaskHeader, 5) \o [i \in 1..MaxHeaderBytes |-> RawByte("hdr")],
           MaskHeader \o <<RawByte("junk"), RawByte("junk")>>,
           ClientHandshake(1, ServerKey, now, TRUE) \o <<RawByte("junk")>>,
           ClientHandshake(1, ServerKey, now, TRUE)
               \o <<EncByte(1, ServerKey, "addr", Zero64, 0)>>,
           [i \in 1..(MaxProbeBytes + ReadChunk) |-> RawByte("pad")] }

\* Entry points: HandshakeAndUpgradeWithTables ("tables"), HandshakeAndUpgrade
\* ("legacy", one table) and the API's serverHandshakeCore ("apis").
ConfigSet ==
    { [impl |-> e[1], tables |-> e[2], pure |-> pure, aead |-> aead,
       noMask |-> nm, key |-> ServerKey, action |-> act] :
        e \in { <<"tables", <<1>> >>, <<"tables", <<1, 2>> >>, <<"legacy", <<1>> >>,
                <<"apis", <<1>> >>, <<"apis", <<1, 2>> >> },
        pure \in BOOLEAN, aead \in {"aead", "none"}, nm \in BOOLEAN,
        act \in {"fallback", "silent"} }

NoFailure == [kind |-> "", stage |-> "", http |-> <<>>, data |-> <<>>]

\* The handler's state right after accept.
FreshConn ==
    [ pc |-> "start",
      taken |-> 0,          \* bytes read from the raw connection so far
      bufR |-> <<>>,        \* bufReader: buffered, not yet consumed
      http |-> <<>>,        \* httpHeaderData / consumed
      probe |-> <<>>,       \* selectTableByProbe: probe
      preBuf |-> <<>>,      \* PreBufferedConn.buf
      selected |-> 0,       \* selectedTable
      recording |-> FALSE,  \* sudoku.Conn.recording
      recorder |-> <<>>,    \* sudoku.Conn.recorder
      fed |-> <<>>,         \* every byte the real codec has read, in order
      pending |-> <<>>,     \* sudoku.Conn.pendingData, decoded and not yet taken
      got |-> <<>>,         \* units delivered to the current io.ReadFull
      modeBuf |-> 0,
      upgraded |-> FALSE,   \* the handshake returned the upgraded connection
      rawClosed |-> FALSE,  \* rawConn.Close() has run
      closersRan |-> FALSE, \* directionalConn.Close ran packed.Flush on the open socket
      fail |-> NoFailure,   \* the error value returned by the handshake
      decoy |-> <<>> ]      \* bytes replayed to the decoy

InitHS ==
    /\ dc = [pc |-> "off"]
    /\ uc = [pc |-> "off"]
    /\ sl = [pc |-> "off"]
    /\ dns = [pc |-> "off"]
    /\ conf = [pc |-> "off"]
    /\ dl = [pc |-> "off"]
    /\ wr = [pc |-> "off"]
    /\ app = [pc |-> "off"]
    /\ tNow \in NowSet
    /\ tField = Zero64
    /\ tVerdict = "none"
    /\ cfg \in ConfigSet
    /\ wire \in WireSet(tNow)
    /\ srv = FreshConn
    /\ connNo = 1
    /\ cod = [on |-> FALSE]
    /\ pk = [on |-> FALSE]

(***************************************************************************)
(* The obfuscation and AEAD layers of the server, over wire positions.     *)
(***************************************************************************)
\* sudoku.Conn.Read's decoding loop over one chunk: padding is skipped, a
\* byte the table does not decode ends the read with INVALID_SUDOKU_MAP_MISS;
\* what was decoded before stays in pendingData.
RECURSIVE DecodeFrom(_, _, _, _)
DecodeFrom(chunk, i, table, units) ==
    IF i > Len(chunk) THEN [units |-> units, err |-> FALSE]
    ELSE LET b == wire[chunk[i]]
         IN  IF b.k = "pad" THEN DecodeFrom(chunk, i + 1, table, units)
             ELSE IF b.k = "enc" /\ b.t = table
                  THEN DecodeFrom(chunk, i + 1, table, Append(units, b))
                  ELSE [units |-> units, err |-> TRUE]
DecodeChunk(chunk, table) == DecodeFrom(chunk, 1, table, <<>>)

\* crypto.AEADConn: a record sealed with another key fails authentication;
\* the cipher "none" passes everything through.
AeadRejects(u) == cfg.aead # "none" /\ u.key # cfg.key

\* if !cfg.EnablePureDownlink && cfg.AEAD == "none"
ConfigRejected == ~cfg.pure /\ cfg.aead = "none"

\* modeBuf[0] != downlinkModeByte(cfg)
ModeMismatch_acceptsAny(m) == FALSE
ModeMismatch(m) == m # downlinkModeByte(cfg.pure)

\* httpmask.LooksLikeHTTPRequestStart on the peeked bytes.
LooksLikeHTTPRequestStart(peek) ==
    /\ Len(peek) = PeekLen
    /\ [i \in 1..PeekLen |-> wire[peek[i]].k] = <<"P", "O", "S", "T">>

(***************************************************************************)
(* probeHandshakeBytes: a throw-away codec and AEAD stack over a read-only *)
(* copy of the probe bytes reads the prelude and the mode byte.  The       *)
(* result is "ok", "eof" (io.EOF / io.ErrUnexpectedEOF: more bytes are     *)
(* needed) or "err".                                                       *)
(***************************************************************************)
RECURSIVE ProbeReadFull(_, _, _, _, _, _)
ProbeReadFull(bytes, pos, pending, got, need, table) ==
    IF Len(got) = need
    THEN [res |-> "ok", got |-> got, pos |-> pos, pending |-> pending]
    ELSE IF pending # <<>>
    THEN IF AeadRejects(Head(pending))
         THEN [res |-> "err", got |-> got, pos |-> pos, pending |-> pending]
         ELSE ProbeReadFull(bytes, pos, Tail(pending), Append(got, Head(pending)), need, table)
    ELSE IF pos > Len(bytes)
    THEN [res |-> "eof", got |-> got, pos |-> pos, pending |-> pending]
    ELSE LET chunk == SubSeq(bytes, pos, Min(pos + IOBufferSize - 1, Len(bytes)))
             dec == DecodeChunk(chunk, table)
         IN  IF dec.err
             THEN [res |-> "err", got |-> got, pos |-> pos + Len(chunk), pending |-> dec.units]
             ELSE ProbeReadFull(bytes, pos + Len(chunk), dec.units, got, need, table)

probeHandshakeBytes_acceptsAll(probe, table) == "ok"
probeHandshakeBytes(probe, table) ==
    LET pre == ProbeReadFull(probe, 1, <<>>, <<>>, PreludeUnits, table)
    IN  IF pre.res # "ok" THEN pre.res
        ELSE IF TimestampStale(tNow, pre.got[1].ts) THEN "err"
        ELSE LET md == ProbeReadFull(probe, pre.pos, pre.pending, <<>>, 1, table)
             IN  IF md.res # "ok" THEN md.res
                 ELSE IF ModeMismatch(md.got[1].m) THEN "err"
                 ELSE "ok"

(***************************************************************************)
(* The server handshake, run from one blocking read to the next.           *)
(***************************************************************************)
\* sConn.StopRecording(): recording = false, recorder = nil.
StopRecording(s) == [s EXCEPT !.recording = FALSE, !.recorder = <<>>]

\* cConn.Close(): the close propagates down to the raw connection; with the
\* packed downlink the stack holds a directionalConn, whose Close runs
\* packed.Flush before it closes the socket.
CloseStack(s) ==
    [s EXCEPT !.rawClosed = TRUE, !.closersRan = @ \/ (~cfg.pure /\ ~s.rawClosed)]

\* The error value the handshake returns.
Fails(s, kind, stage, http, data) ==
    [s EXCEPT !.pc = "failed",
              !.fail = [kind |-> kind, stage |-> stage, http |-> http, data |-> data]]

HandshakeFail_withoutMask(s, stage) == Fails(s, "suspicious", stage, <<>>, s.recorder)

\* The failure paths after the codec stack is built.  sConn's
\* GetBufferedAndRecorded returns the recorder's bytes (nothing once
\* recording has stopped).
\*   tables: SuspiciousError{prefixedRecorderConn{sConn, prefix: httpHeaderData}}
\*   legacy: SuspiciousError{sConn}; cConn.Close() on the mode failures, and a
\*           plain error when the mode byte cannot be read
\*   apis:   cConn.Close(); fail(err) with HTTPHeaderData and ReadData
HandshakeFail(s, stage) ==
    CASE cfg.impl = "tables" ->
            Fails(s, "suspicious", stage, s.http, s.recorder)
      [] cfg.impl = "legacy" ->
            IF stage = "mode-read"
            THEN Fails(CloseStack(s), "plain", stage, <<>>, <<>>)
            ELSE IF stage = "mode-mismatch"
            THEN Fails(CloseStack(s), "suspicious", stage, <<>>, s.recorder)
            ELSE Fails(s, "suspicious", stage, <<>>, s.recorder)
      [] OTHER ->
            Fails(CloseStack(s), "handshakeError", stage, s.http, s.recorder)

ReadStage(s) ==
    CASE s.pc = "prelude" -> "prelude-read"
      [] s.pc = "mode" -> "mode-read"
      [] OTHER -> "addr"

\* The handshake code from its current position up to the next read that
\* needs bytes from the connection: io.ReadFull(cConn, handshakeBuf), the
\* timestamp check, io.ReadFull(cConn, modeBuf), the mode check and, in the
\* API's ServerHandshake, the target address.
RECURSIVE Advance(_)
Advance(s) ==
    LET need == IF s.pc = "prelude" THEN PreludeUnits ELSE 1
    IN
    IF Len(s.got) < need
    THEN IF s.pending = <<>> THEN s
         ELSE IF AeadRejects(Head(s.pending)) THEN HandshakeFail(s, ReadStage(s))
         ELSE Advance([s EXCEPT !.pending = Tail(@), !.got = Append(@, Head(s.pending))])
    ELSE IF s.pc = "prelude"
    THEN IF TimestampStale(tNow, s.got[1].ts) THEN HandshakeFail(s, "stale")
         ELSE Advance([(IF cfg.impl = "tables" THEN s ELSE StopRecording(s))
                          EXCEPT !.pc = "mode", !.got = <<>>])
    ELSE IF s.pc = "mode"
    THEN LET t == [s EXCEPT !.modeBuf = s.got[1].m, !.got = <<>>]
         IN  IF ModeMismatch(s.got[1].m) THEN HandshakeFail(t, "mode-mismatch")
             ELSE IF cfg.impl = "tables"
             THEN [StopRecording(t) EXCEPT !.pc = "established", !.upgraded = TRUE]
             ELSE IF cfg.impl = "legacy"
             THEN [t EXCEPT !.pc = "established", !.upgraded = TRUE]
             ELSE Advance([t EXCEPT !.pc = "addr", !.upgraded = TRUE])
    ELSE \* ServerHandshake: protocol.ReadAddress; on error conn.Close(), fail(err)
         IF s.got[1].u = "addr" /\ s.got[1].m = 1
         THEN [s EXCEPT !.pc = "established", !.got = <<>>]
         ELSE HandshakeFail(s, "addr")

\* One Read of the connection below the codec: PreBufferedConn's buffer
\* first, then what bufReader still holds, then the raw connection (any
\* positive number of bytes up to the codec's buffer, or EOF).
UnderlyingReads(s) ==
    IF s.preBuf # <<>>
    THEN { [eof |-> FALSE, chunk |-> Take(s.preBuf, IOBufferSize),
            preBuf |-> Drop(s.preBuf, IOBufferSize), bufR |-> s.bufR, taken |-> s.taken] }
    ELSE IF s.bufR # <<>>
    THEN { [eof |-> FALSE, chunk |-> s.bufR,
            preBuf |-> <<>>, bufR |-> <<>>, taken |-> s.taken] }
    ELSE IF s.taken = Len(wire)
    THEN { [eof |-> TRUE, chunk |-> <<>>,
            preBuf |-> <<>>, bufR |-> <<>>, taken |-> s.taken] }
    ELSE { [eof |-> FALSE, chunk |-> Range(s.taken + 1, s.taken + n),
            preBuf |-> <<>>, bufR |-> <<>>, taken |-> s.taken + n] :
              n \in 1..Min(IOBufferSize, Len(wire) - s.taken) }

\* ConnRead without the test of the recording flag.
ConnRead_recordsAlways(s, r) ==
    LET dec == DecodeChunk(r.chunk, s.selected)
        s1 == [s EXCEPT !.preBuf = r.preBuf, !.bufR = r.bufR, !.taken = r.taken,
                        !.recorder = @ \o r.chunk,
                        !.fed = @ \o r.chunk,
                        !.pending = @ \o dec.units]
    IN  IF r.eof \/ dec.err THEN HandshakeFail(s1, ReadStage(s)) ELSE Advance(s1)

\* sudoku.Conn.Read with pendingData empty: read a chunk, record it while
\* recording, decode it into pendingData.
ConnRead(s, r) ==
    LET dec == DecodeChunk(r.chunk, s.selected)
        s1 == [s EXCEPT !.preBuf = r.preBuf, !.bufR = r.bufR, !.taken = r.taken,
                        !.recorder = IF s.recording THEN @ \o r.chunk ELSE @,
                        !.fed = @ \o r.chunk,
                        !.pending = @ \o dec.units]
    IN  IF r.eof \/ dec.err THEN HandshakeFail(s1, ReadStage(s)) ELSE Advance(s1)

\* The last byte httpmask.ConsumeHeader consumes: the first blank line, or,
\* without one, the end of the stream or the bound on a header (0: none).
HeaderEnd ==
    LET ends == { i \in 1..Min(Len(wire), MaxHeaderBytes) : wire[i].k = "end" }
    IN  IF ends = {} THEN 0 ELSE CHOOSE i \in ends : \A j \in ends : i <= j

\* NewPreBufferedConn(rawConn, preRead) / &preBufferedConn{Conn: rawConn, buf: preRead}
NewPreBufferedConn_dropsPreRead(preRead) == <<>>
NewPreBufferedConn_twice(preRead) == preRead \o preRead
NewPreBufferedConn(preRead) == preRead

\* The codec stack is built on the selected table with recording on.
BuildStack(s, table, preRead) ==
    [s EXCEPT !.pc = "prelude", !.selected = table, !.recording = TRUE,
              !.preBuf = NewPreBufferedConn(preRead)]

\* MaskPeek without the test of the peeked bytes: a server that looks for a
\* mask goes on to consume a header on every connection.
MaskPeek_alwaysConsume ==
    /\ srv.pc = "start"
    /\ IF cfg.impl = "apis" /\ ConfigRejected
       THEN srv' = Fails(srv, "plain", "config", <<>>, <<>>)
       ELSE IF cfg.noMask
       THEN srv' = [srv EXCEPT !.pc = "masked"]
       ELSE \E k \in (IF Len(wire) < PeekLen THEN {Len(wire)}
                      ELSE PeekLen..Min(BufSize, Len(wire))) :
              srv' = [srv EXCEPT !.taken = k, !.bufR = Range(1, k), !.pc = "consume"]
    /\ UNCHANGED <<tNow, connNo>>
    /\ UNCHANGED FrameHS

\* Step 0 of the handshake: cfg.Validate() (API), then bufReader.Peek(4)
\* unless DisableHTTPMask.  Peek fills the buffer with what has arrived: at
\* least 4 bytes, or everything up to the end of the stream with an error.
MaskPeek ==
    /\ srv.pc = "start"
    /\ IF cfg.impl = "apis" /\ ConfigRejected
       THEN srv' = Fails(srv, "plain", "config", <<>>, <<>>)
       ELSE IF cfg.noMask
       THEN srv' = [srv EXCEPT !.pc = "masked"]
       ELSE \E k \in (IF Len(wire) < PeekLen THEN {Len(wire)}
                      ELSE PeekLen..Min(BufSize, Len(wire))) :
              LET peeked == Range(1, k)
              IN  srv' = [srv EXCEPT
                            !.taken = k, !.bufR = peeked,
                            !.pc = IF k >= PeekLen
                                      /\ LooksLikeHTTPRequestStart(Take(peeked, PeekLen))
                                   THEN "consume" ELSE "masked"]
    /\ UNCHANGED <<tNow, connNo>>
    /\ UNCHANGED FrameHS

\* httpmask.ConsumeHeader(bufReader) and the failure path of each entry point.
MaskConsume ==
    /\ srv.pc = "consume"
    /\ LET e == HeaderEnd
           stop == IF e > 0 THEN e ELSE Min(Len(wire), MaxHeaderBytes)
       IN  \E tk \in (IF srv.taken >= stop THEN {srv.taken}
                      ELSE stop..Min(Len(wire), stop + BufSize - 1)) :
             LET s1 == [srv EXCEPT !.taken = tk, !.http = Range(1, stop),
                                   !.bufR = Range(stop + 1, tk)]
             IN  srv' = IF e > 0 THEN [s1 EXCEPT !.pc = "masked"]
                        ELSE IF cfg.impl = "apis"
                        THEN Fails(s1, "handshakeError", "mask", s1.http, <<>>)
                        ELSE Fails(s1, "suspicious", "mask", s1.http, s1.bufR)
    /\ UNCHANGED <<tNow, connNo>>
    /\ UNCHANGED FrameHS

\* After the mask: the configuration check of the tunnel entry points, then
\* either the codec stack on bufReader (legacy) or selectTableByProbe's
\* drainBuffered, which returns at once when there is a single table.
SudokuLayer ==
    /\ srv.pc = "masked"
    /\ IF cfg.impl # "apis" /\ ConfigRejected
       THEN srv' = Fails(srv, "plain", "config", <<>>, <<>>)
       ELSE IF cfg.impl = "legacy"
       THEN srv' = Advance([srv EXCEPT !.pc = "prelude", !.selected = cfg.tables[1],
                                       !.recording = TRUE])
       ELSE IF Len(cfg.tables) = 1
       THEN srv' = Advance(BuildStack([srv EXCEPT !.bufR = <<>>], cfg.tables[1], srv.bufR))
       ELSE srv' = [srv EXCEPT !.pc = "select", !.probe = srv.bufR, !.bufR = <<>>]
    /\ UNCHANGED <<tNow, connNo>>
    /\ UNCHANGED FrameHS

\* One iteration of selectTableByProbe's loop with several candidates.
SelectFail(s) ==
    Fails(s, IF cfg.impl = "apis" THEN "handshakeError" ELSE "suspicious",
          "select", s.http, s.probe)

ProbeStep ==
    /\ srv.pc = "select"
    /\ LET res == [j \in 1..Len(cfg.tables) |-> probeHandshakeBytes(srv.probe, cfg.tables[j])]
           oks == { j \in 1..Len(cfg.tables) : res[j] = "ok" }
       IN  IF oks # {}
           THEN srv' = Advance(BuildStack(srv,
                          cfg.tables[CHOOSE j \in oks : \A i \in oks : j <= i], srv.probe))
           ELSE IF \A j \in 1..Len(cfg.tables) : res[j] # "eof"
           THEN srv' = SelectFail(srv)
           ELSE IF Len(srv.probe) >= MaxProbeBytes
           THEN srv' = SelectFail(srv)
           ELSE IF srv.taken = Len(wire)
           THEN srv' = SelectFail(srv)
           ELSE \E n \in 1..Min(ReadChunk, Len(wire) - srv.taken) :
                  srv' = [srv EXCEPT !.taken = @ + n,
                                     !.probe = @ \o Range(srv.taken + 1, srv.taken + n)]
    /\ UNCHANGED <<tNow, connNo>>
    /\ UNCHANGED FrameHS

\* A read of the real codec stack during the prelude, the mode byte or the
\* address, and the handshake code that follows it.
HandshakeRead ==
    /\ srv.pc \in {"prelude", "mode", "addr"}
    /\ \E r \in UnderlyingReads(srv) : srv' = ConnRead(srv, r)
    /\ UNCHANGED <<tNow, connNo>>
    /\ UNCHANGED FrameHS

\* handleServerConn on a handshake error: a SuspiciousError goes to
\* handler.HandleSuspicious (fallback: the recorded bytes are written to the
\* decoy and the raw connection is spliced to it; silent: closed); any other
\* error closes the raw connection.
HandleSuspicious(s) ==
    IF cfg.action = "fallback"
    THEN [s EXCEPT !.pc = "fallback", !.decoy = s.fail.http \o s.fail.data]
    ELSE [s EXCEPT !.pc = "closed", !.rawClosed = TRUE]

Dispatch ==
    /\ srv.pc = "failed"
    /\ cfg.impl # "apis"
    /\ IF srv.fail.kind = "suspicious"
       THEN srv' = HandleSuspicious(srv)
       ELSE srv' = [srv EXCEPT !.pc = "closed", !.rawClosed = TRUE]
    /\ UNCHANGED <<tNow, connNo>>
    /\ UNCHANGED FrameHS

\* Seconds between an accepted connection and a replay of its bytes.
ReplayDelays == {0, 30, 61}

\* A new connection is accepted and the peer sends the byte sequence of the
\* connection whose handshake succeeded; the server keeps no state from one
\* connection to the next (handleServerConn starts from its arguments only).
Replay ==
    /\ connNo = 1
    /\ srv.upgraded
    /\ srv.pc = "established"
    /\ \E d \in ReplayDelays : tNow' = Add64(tNow, Small64(d))
    /\ srv' = FreshConn
    /\ connNo' = 2
    /\ UNCHANGED FrameHS

NextHS ==
    \/ MaskPeek
    \/ MaskConsume
    \/ SudokuLayer
    \/ ProbeStep
    \/ HandshakeRead
    \/ Dispatch
    \/ Replay

SpecHS == InitHS /\ [][NextHS]_vars

(***************************************************************************)
(* Properties of the server handshake.                                     *)
(***************************************************************************)
\* The bytes a failure value carries: HTTP-mask bytes, then codec bytes.
FailureBytes == srv.fail.http \o srv.fail.data

\* The failures that come from what the peer sent.
WireFailureStages ==
    {"mask", "select", "prelude-read", "stale", "mode-read", "mode-mismatch", "addr"}

\* C1: on any handshake failure (malformed mask, probe exhaustion, prelude
\* decrypt failure, timestamp skew, mode mismatch, address decode failure) the
\* failure value carries the recorded HTTP-mask bytes followed by the recorded
\* codec bytes, and their concatenation is exactly the byte sequence taken
\* from the wire so far, in wire order, none missing and none duplicated.
C1_FailureCarriesEveryByteRead ==
    srv.fail.stage \in WireFailureStages =>
        /\ srv.fail.http = srv.http
        /\ FailureBytes = Range(1, srv.taken)

\* C2: recording stops only after the downlink-mode byte has been read and
\* accepted; when the mode byte cannot be read or does not match, recording
\* is still active and the failure value carries every wire byte consumed up
\* to and including the mode byte.
C2_RecordingUntilModeAccepted ==
    /\ (srv.selected # 0 /\ ~srv.upgraded) => srv.recording
    /\ srv.fail.stage \in {"mode-read", "mode-mismatch"} =>
          /\ srv.recording
          /\ FailureBytes = Range(1, srv.taken)

\* C3: on a handshake failure the raw accepted connection has not been closed
\* by the handshake code when the failure value is handed on.
C3_RawConnOpenOnFailure ==
    (srv.pc = "failed" /\ srv.fail.stage \in WireFailureStages) => ~srv.rawClosed

\* C4: every error that occurs during the handshake, from accept up to and
\* including the downlink-mode check, is reported as a Suspicious error
\* carrying the recorded bytes (the API's HandshakeError is its counterpart);
\* no such error is handled by just closing the connection.
C4_EveryHandshakeErrorIsSuspicious ==
    (srv.fail.stage # "" /\ ~srv.upgraded) =>
        srv.fail.kind \in {"suspicious", "handshakeError"}

\* C6: the byte sequence of a handshake the server accepted on one connection
\* is not accepted when the same bytes are sent again on a new connection.
C6_ReplayNotAccepted ==
    connNo = 2 => ~srv.upgraded

\* C7: the server returns an established connection only if the mode byte it
\* read from the client equals its own configured mode; a packed-mode client
\* cannot complete a handshake to a pure-mode server, nor a pure-mode client
\* to a packed-mode server.
C7_EstablishedOnlyOnMatchingMode ==
    srv.upgraded =>
        /\ srv.modeBuf = IF cfg.pure THEN DownlinkModePure ELSE DownlinkModePacked
        /\ \E i \in 1..srv.taken : wire[i].u = "mode" /\ wire[i].m = srv.modeBuf

\* C7 witness: a packed-mode client was turned away by a pure-mode server at
\* the mode check.
C7_PackedClientRejectedByPureServer ==
    /\ cfg.pure
    /\ srv.fail.stage = "mode-mismatch"
    /\ srv.modeBuf = DownlinkModePacked
    /\ ~srv.upgraded

\* C10: probe selection is read-only (while candidates are tried the real
\* connection's codec state is untouched), and once a candidate succeeds every
\* byte read from the wire during probing is replayed in order and exactly
\* once into the real codec stack, whose handshake then reads the prelude and
\* the mode byte as the successful probe did.
C10_ProbeReadOnlyAndReplayed ==
    /\ srv.pc = "select" =>
          /\ srv.selected = 0 /\ ~srv.recording
          /\ srv.fed = <<>> /\ srv.recorder = <<>> /\ srv.pending = <<>>
          /\ srv.probe = Range(Len(srv.http) + 1, srv.taken)
    /\ srv.selected # 0 =>
          srv.fed \o srv.preBuf \o srv.bufR = Range(Len(srv.http) + 1, srv.taken)
    /\ (srv.selected # 0 /\ Len(cfg.tables) > 1) =>
          srv.fail.stage \notin {"prelude-read", "stale", "mode-read", "mode-mismatch"}

\* C10 witness: with two candidate tables the probe chose the second one after
\* reading from the wire, and the real stack completed the handshake on the
\* replayed bytes.
C10_SecondTableSelectedAndUpgraded ==
    /\ Len(cfg.tables) > 1
    /\ srv.selected = cfg.tables[2]
    /\ srv.upgraded
    /\ srv.fed # <<>>
    /\ srv.fed \o srv.preBuf = Range(Len(srv.http) + 1, srv.taken)

\* The wire is what an honest client of table t sends to this server: the
\* server's key, a fresh timestamp, the server's downlink mode, and a mask
\* only if the server looks for one.
HonestClientOf(t) ==
    /\ connNo = 1
    /\ ~ConfigRejected
    /\ \E mk \in BOOLEAN :
          /\ mk => ~cfg.noMask
          /\ wire = ClientWire(mk, t, ServerKey, tNow, cfg.pure)

ServerTables == { cfg.tables[j] : j \in 1..Len(cfg.tables) }

\* C11: with N candidate tables on the server and one table on the client
\* the handshake succeeds if and only if the client's table is in the server's
\* set, and the table the server selects is the client's table: a client of
\* a table in the set is never failed and is established once the codec has
\* read all its bytes; a client of another table is never established.
C11_SucceedsIffTableInSet ==
    \A t \in 1..3 :
        HonestClientOf(t) =>
            /\ (srv.upgraded \/ srv.pc = "established") =>
                  (t \in ServerTables /\ srv.selected = t)
            /\ t \in ServerTables =>
                  /\ srv.pc \notin {"failed", "fallback", "closed"}
                  /\ srv.fed = Range(Len(srv.http) + 1, Len(wire)) =>
                        (srv.pc = "established" /\ srv.selected = t)

\* C11 witness: a server with several tables has established a client of one
\* of them, and the table it selected is the client's.
C11_ClientTableSelectedAmongSeveral ==
    /\ Len(cfg.tables) > 1
    /\ \E t \in ServerTables : HonestClientOf(t) /\ srv.selected = t
    /\ srv.pc = "established"

\* The part of the connection's opening a wire byte belongs to: 1 the HTTP
\* mask, 2 the handshake prelude, 3 the downlink-mode byte, 4 the first
\* application byte; 0 for padding and undecodable bytes.
PartOf(b) ==
    IF b.k \in {"P", "O", "S", "T", "hdr", "end"} THEN 1
    ELSE IF b.k # "enc" THEN 0
    ELSE IF b.u = "pre" THEN 2
    ELSE IF b.u = "mode" THEN 3
    ELSE 4

\* The parts after the mask, in the order the client writes them.
OpeningParts == [i \in 1..(PreludeUnits + 2) |->
                   IF i <= PreludeUnits THEN 2 ELSE i - PreludeUnits + 2]

\* The units the handshake has taken from the codec so far: what the codec
\* decoded from the bytes it read, less what is still in pendingData.
UnitsTaken ==
    LET all == DecodeChunk(srv.fed, srv.selected).units
    IN  Take(all, Len(all) - Len(srv.pending))

\* C15: on every client connection the HTTP mask (if any), the handshake
\* prelude, the downlink-mode byte and the first application byte are on the
\* wire strictly in that order, and the server consumes them in that order:
\* the header it consumed is the start of the wire, the codec reads the bytes
\* after it one after the other, and the units the handshake has taken are
\* the prelude, then the mode byte, then the first application byte, as far
\* as its position in the handshake says.
C15_OpeningInOrder ==
    \A t \in ServerTables :
        HonestClientOf(t) =>
            /\ \A i, j \in 1..Len(wire) :
                  (i < j /\ PartOf(wire[i]) # 0 /\ PartOf(wire[j]) # 0)
                      => PartOf(wire[i]) <= PartOf(wire[j])
            /\ [i \in 1..Len(UnitsTaken) |-> PartOf(UnitsTaken[i])]
                  = Take(OpeningParts, Len(UnitsTaken))
            /\ srv.http = Range(1, Len(srv.http))
            /\ \A i \in 1..Len(srv.http) : PartOf(wire[i]) = 1
            /\ srv.fed = Range(Len(srv.http) + 1, Len(srv.http) + Len(srv.fed))
            /\ srv.pc = "prelude" => Len(UnitsTaken) < PreludeUnits
            /\ srv.pc = "mode" => Len(UnitsTaken) = PreludeUnits
            /\ srv.pc = "addr" => Len(UnitsTaken) = PreludeUnits + 1
            /\ srv.pc = "established" =>
                  Len(UnitsTaken) = PreludeUnits + (IF cfg.impl = "apis" THEN 2 ELSE 1)

\* C15 witness: a masked client was established by the API's ServerHandshake,
\* which consumed the mask, the prelude, the mode byte and the first
\* application byte.
C15_MaskedOpeningConsumed ==
    /\ \E t \in ServerTables : HonestClientOf(t)
    /\ srv.pc = "established"
    /\ cfg.impl = "apis"
    /\ srv.http # <<>>
    /\ Len(UnitsTaken) = PreludeUnits + 2

\* The peer's bytes start with the request line of an HTTP mask whose header
\* ends with a blank line, and the server has gone past the mask stage.
MaskedPeerPastMaskStage ==
    /\ connNo = 1
    /\ Len(wire) >= PeekLen
    /\ LooksLikeHTTPRequestStart(Range(1, PeekLen))
    /\ HeaderEnd > 0
    /\ srv.pc \notin {"start", "consume"}
    /\ ~(cfg.impl = "apis" /\ ConfigRejected)

\* C20: the server auto-detects the HTTP mask on every connection: a request
\* line at offset 0 makes it consume the header up to and including the
\* first blank line, whatever its own disable_http_mask flag says.
C20_MaskAutoDetected ==
    MaskedPeerPastMaskStage => srv.http = Range(1, HeaderEnd)

\* The same for servers whose flag is not set.
C20_MaskDetectedWhenEnabled ==
    ~cfg.noMask => C20_MaskAutoDetected

\* The wire is what a valid client of table t sends, with the HTTP mask
\* (mk) or without it, to a server that has the mask enabled.
ValidClientOfMaskServer(t, mk) ==
    /\ connNo = 1
    /\ ~ConfigRejected
    /\ ~cfg.noMask
    /\ wire = ClientWire(mk, t, ServerKey, tNow, cfg.pure)

C25_FallbackReplaysPrefix ==
    (/\ cfg.impl = "tables"
     /\ cfg.action = "fallback"
     /\ srv.fail.stage \in WireFailureStages) =>
        /\ srv.pc # "closed"
        /\ srv.pc = "fallback" =>
              /\ srv.decoy = Range(1, srv.taken)
              /\ srv.decoy \o Range(srv.taken + 1, Len(wire)) = Range(1, Len(wire))
              /\ ~srv.rawClosed

\* C25 witness: a prober's masked junk has been replayed to the decoy, mask
\* bytes first and codec bytes after them.
C25_MaskedJunkReplayed ==
    /\ cfg.impl = "tables"
    /\ srv.pc = "fallback"
    /\ srv.fail.http # <<>>
    /\ srv.fail.data # <<>>
    /\ srv.decoy = Range(1, srv.taken)

\* The probe window grows only by the reads of selectTableByProbe's loop.
ProbeReadStep == srv.pc = "select" /\ srv'.pc = "select" /\ srv'.probe # srv.probe

\* C30: the probe window is bounded: the number of wire bytes buffered by
\* probe selection never exceeds the bound (64 KiB), bytes are added in
\* steps of at most one chunk (4 KiB), and selection ends in probe failure
\* once the bound is reached.
C30_ProbeWindowBounded ==
    /\ [](cfg.impl # "none" => Len(srv.probe) <= MaxProbeBytes)
    /\ [][ProbeReadStep => Len(srv'.probe) - Len(srv.probe) <= ReadChunk]_vars
    /\ [][(srv.pc = "select" /\ Len(srv.probe) >= MaxProbeBytes) =>
             (srv'.pc = "failed" /\ srv'.fail.stage = "select")]_vars

(***************************************************************************)
(* Specification SpecTime: the freshness check applied to bounded inputs.  *)
(***************************************************************************)
\* Offsets of the timestamp field from the server clock.
SkewMagnitudes == {0, 1, 59, 60, 61, 120, 255}
SkewSet ==
    { Small64(n) : n \in SkewMagnitudes }
    \cup { Neg64(Small64(n)) : n \in SkewMagnitudes }
    \cup { MinInt64, Neg64(One64) \* -1
         , <<127, 255, 255, 255, 255, 255, 255, 255>>
         , <<0, 0, 0, 1, 0, 0, 0, 0>>
         , <<255, 255, 255, 255, 0, 0, 0, 0>>
         , <<128, 0, 0, 0, 0, 0, 0, 60>>
         , <<127, 255, 255, 255, 255, 255, 255, 196>> }

FieldSet(now) ==
    { Add64(now, d) : d \in SkewSet } \cup { Zero64, MinInt64, Not64(Zero64) }

InitTime ==
    /\ dc = [pc |-> "off"]
    /\ uc = [pc |-> "off"]
    /\ sl = [pc |-> "off"]
    /\ dns = [pc |-> "off"]
    /\ conf = [pc |-> "off"]
    /\ dl = [pc |-> "off"]
    /\ wr = [pc |-> "off"]
    /\ app = [pc |-> "off"]
    /\ tNow \in NowSet
    /\ tField \in FieldSet(tNow)
    /\ tVerdict = "none"
    /\ cfg = [impl |-> "none"]
    /\ wire = <<>>
    /\ srv = [pc |-> "off"]
    /\ connNo = 0
    /\ cod = [on |-> FALSE]
    /\ pk = [on |-> FALSE]

CheckTimestamp ==
    /\ tVerdict = "none"
    /\ tVerdict' = IF TimestampStale(tNow, tField) THEN "rejected" ELSE "accepted"
    /\ UNCHANGED FrameTime

NextTime == CheckTimestamp

SpecTime == InitTime /\ [][NextTime]_vars

\* C5: every prelude whose timestamp differs from the server's clock by more
\* than 60 seconds is rejected, in the past or in the future, for every value
\* of the 8-byte field.
C5_RejectsEverySkewedTimestamp ==
    tVerdict = "accepted" => ~UGt(TrueSkew(tNow, tField), MaxSkewSeconds)

(***************************************************************************)
(* The table shared by the two ends of a codec.  Hints are bytes; a hint   *)
(* carries a cell position (4 bits) and the cell's value (2 bits):         *)
(* 01vvpppp in ASCII mode and 0vv0pppp in entropy mode.  Padding bytes     *)
(* have bit 6 clear (ASCII) or bit 7 or bit 4 set (entropy).               *)
(***************************************************************************)
Bit(b, i) == (b \div (2 ^ i)) % 2

\* The plaintext bytes of the model.
PlainSet == {0, 1, 2}

\* The grids assigned to a plaintext byte, each shown by four hints
\* <<position, value>>; two bytes may share some of their hints.
Grids(b) ==
    CASE b = 0 -> << << <<0, 0>>, <<5, 1>>, <<10, 2>>, <<15, 3>> >>,
                     << <<1, 0>>, <<4, 1>>, <<11, 2>>, <<14, 3>> >> >>
      [] b = 1 -> << << <<0, 1>>, <<5, 0>>, <<10, 3>>, <<15, 2>> >> >>
      [] OTHER -> << << <<0, 0>>, <<5, 1>>, <<10, 3>>, <<15, 2>> >>,
                     << <<3, 2>>, <<6, 3>>, <<9, 0>>, <<12, 1>> >> >>

HintByte(ascii, h) ==
    IF ascii THEN 64 + h[2] * 16 + h[1] ELSE h[2] * 32 + h[1]

\* table.EncodeTable[b]: the puzzles (four hint bytes each) of byte b.
EncodeTable(ascii, b) ==
    [i \in 1..Len(Grids(b)) |-> [j \in 1..4 |-> HintByte(ascii, Grids(b)[i][j])]]

\* table.PaddingPool; it holds the packed codec's flush marker too.
PaddingPool(ascii) == IF ascii THEN <<32, 63, 42>> ELSE <<128, 16, 159>>

\* packHintsToKey: the key of four hints does not depend on their order.
packHintsToKey(h) == SortSeq(h, LAMBDA a, c : a < c)

\* table.DecodeMap[key]; -1 when the key is not in the map.
DecodeMap(ascii, key) ==
    LET hits == { b \in PlainSet : \E i \in 1..Len(Grids(b)) :
                     packHintsToKey(EncodeTable(ascii, b)[i]) = key }
    IN  IF hits = {} THEN -1 ELSE CHOOSE b \in hits : TRUE

(***************************************************************************)
(* math/rand seeded at construction: a deterministic stream of draws.      *)
(***************************************************************************)
RngNext(x) == (x * 75 + 74) % 65537

(***************************************************************************)
(* sudoku.Conn.Write.  st = [rng, out]; rate is paddingRate in percent.    *)
(***************************************************************************)
\* if sc.rng.Float32() < sc.paddingRate { out = append(out, pads[sc.rng.Intn(padLen)]) }
MaybePad(st, ascii, rate) ==
    LET x1 == RngNext(st.rng)
    IN  IF (x1 % 100) < rate
        THEN LET x2 == RngNext(x1)
                 pads == PaddingPool(ascii)
             IN  [rng |-> x2, out |-> Append(st.out, pads[(x2 % Len(pads)) + 1])]
        ELSE [rng |-> x1, out |-> st.out]

\* sc.rng.Shuffle(4, swap): for i := n-1; i > 0; i-- { j := Intn(i+1); swap(i, j) }
RECURSIVE Shuffle(_, _, _)
Shuffle(perm, i, x) ==
    IF i < 2 THEN [perm |-> perm, rng |-> x]
    ELSE LET x1 == RngNext(x)
             j == (x1 % i) + 1
         IN  Shuffle([perm EXCEPT ![i] = perm[j], ![j] = perm[i]], i - 1, x1)

\* for _, idx := range perm { optional padding; out = append(out, puzzle[idx]) }
\* (The test of Len(st.out) makes TLC evaluate st at every round of the loop
\* instead of building the whole computation first.)
RECURSIVE EmitHints(_, _, _, _, _, _)
EmitHints(st, puzzle, perm, k, ascii, rate) ==
    IF k > 4 \/ Len(st.out) < 0 THEN st
    ELSE LET s1 == MaybePad(st, ascii, rate)
         IN  EmitHints([s1 EXCEPT !.out = Append(@, puzzle[perm[k]])],
                       puzzle, perm, k + 1, ascii, rate)

\* The body of Write's loop for one byte b.
EncodeByte(st, b, ascii, rate) ==
    LET s1 == MaybePad(st, ascii, rate)
        x2 == RngNext(s1.rng)
        puzzles == EncodeTable(ascii, b)
        puzzle == puzzles[(x2 % Len(puzzles)) + 1]
        sh == Shuffle(<<1, 2, 3, 4>>, 4, x2)
    IN  EmitHints([rng |-> sh.rng, out |-> s1.out], puzzle, sh.perm, 1, ascii, rate)

RECURSIVE EncodeBytes(_, _, _, _, _)
EncodeBytes(st, p, i, ascii, rate) ==
    IF i > Len(p) \/ Len(st.out) < 0 THEN st
    ELSE EncodeBytes(EncodeByte(st, p[i], ascii, rate), p, i + 1, ascii, rate)

\* What Write(p) hands to the connection, and the generator's state after it.
ConnWriteOut(rng, p, ascii, rate) ==
    MaybePad(EncodeBytes([rng |-> rng, out |-> <<>>], p, 1, ascii, rate), ascii, rate)

(***************************************************************************)
(* sudoku.Conn.Read's decoding of one chunk.                               *)
(***************************************************************************)
\* ASCII mode: (b & 0x40) == 0; entropy mode: (b & 0x90) != 0.
IsPadding_asciiRuleOnly(ascii, b) == Bit(b, 6) = 0
IsPadding(ascii, b) ==
    IF ascii THEN Bit(b, 6) = 0 ELSE Bit(b, 7) = 1 \/ Bit(b, 4) = 1

RECURSIVE ConnDecode(_, _, _, _, _)
ConnDecode(chunk, i, hintBuf, pending, ascii) ==
    IF i > Len(chunk) THEN [hintBuf |-> hintBuf, pending |-> pending, err |-> FALSE]
    ELSE IF IsPadding(ascii, chunk[i])
    THEN ConnDecode(chunk, i + 1, hintBuf, pending, ascii)
    ELSE LET hb == Append(hintBuf, chunk[i])
         IN  IF Len(hb) # 4 THEN ConnDecode(chunk, i + 1, hb, pending, ascii)
             ELSE LET val == DecodeMap(ascii, packHintsToKey(hb))
                  IN  IF val = -1
                      THEN [hintBuf |-> hb, pending |-> pending, err |-> TRUE]
                      ELSE ConnDecode(chunk, i + 1, <<>>, Append(pending, val), ascii)

(***************************************************************************)
(* Specification SpecCodec: one direction of the Sudoku stream codec, a    *)
(* writer and a reader joined by a pipe.                                   *)
(***************************************************************************)
MaxPlain == 2        \* plaintext bytes written in one run
MaxReadBuf == 2      \* the longest buffer handed to Read

RateSet == {0, 30, 100}          \* paddingRate in percent
SeedSet == {1, 2, 3}   \* seeds of the writer's generator

IsPrefix(s, t) == Len(s) <= Len(t) /\ SubSeq(t, 1, Len(s)) = s

PlainSeqs(n) == UNION { [1..k -> PlainSet] : k \in 1..n }

\* NewConn on both ends of the pipe.
NewConn(ascii, rate, seed) ==
    [ on |-> TRUE, ascii |-> ascii, rate |-> rate, rng |-> seed,
      written |-> <<>>,      \* every byte passed to Write, in order
      pipe |-> <<>>,         \* the bytes on the wire
      rpos |-> 0,            \* how many of them the reader has taken
      hintBuf |-> <<>>,
      pendingData |-> <<>>,
      delivered |-> <<>>,    \* every byte Read has returned, in order
      lenP |-> 0,            \* len(p) of a Read waiting for bytes (0: none)
      err |-> FALSE,
      split |-> FALSE ]      \* a chunk has ended inside a group of hints

InitCodec ==
    /\ dc = [pc |-> "off"]
    /\ uc = [pc |-> "off"]
    /\ sl = [pc |-> "off"]
    /\ dns = [pc |-> "off"]
    /\ conf = [pc |-> "off"]
    /\ dl = [pc |-> "off"]
    /\ wr = [pc |-> "off"]
    /\ app = [pc |-> "off"]
    /\ tNow = Zero64
    /\ tField = Zero64
    /\ tVerdict = "none"
    /\ cfg = [impl |-> "none"]
    /\ wire = <<>>
    /\ srv = [pc |-> "off"]
    /\ connNo = 0
    /\ cod \in { NewConn(a, r, s) : a \in BOOLEAN, r \in RateSet, s \in SeedSet }
    /\ pk = [on |-> FALSE]

\* Write(p) with len(p) > 0.
ConnWrite ==
    /\ ~cod.err
    /\ \E p \in PlainSeqs(MaxPlain - Len(cod.written)) :
         LET w == ConnWriteOut(cod.rng, p, cod.ascii, cod.rate)
         IN  cod' = [cod EXCEPT !.rng = w.rng, !.written = @ \o p, !.pipe = @ \o w.out]
    /\ UNCHANGED FrameCodec

\* n = copy(p, sc.pendingData) and the adjustment of pendingData.
Deliver(c, n) ==
    [c EXCEPT !.delivered = @ \o Take(c.pendingData, n),
              !.pendingData = Drop(@, n),
              !.lenP = 0]

\* Read(p) is called: pending bytes are returned at once, otherwise the call
\* goes on to read from the connection.
ConnReadCall ==
    /\ ~cod.err
    /\ cod.lenP = 0
    /\ \E n \in 1..MaxReadBuf :
         cod' = IF cod.pendingData # <<>> THEN Deliver(cod, n)
                ELSE [cod EXCEPT !.lenP = n]
    /\ UNCHANGED FrameCodec

\* One round of Read's loop: sc.reader.Read(sc.rawBuf) returns a chunk, the
\* chunk is decoded, and Read returns once something was decoded.
ConnReadChunk ==
    /\ cod.lenP > 0
    /\ cod.rpos < Len(cod.pipe)
    /\ \E k \in 1..Min(IOBufferSize, Len(cod.pipe) - cod.rpos) :
         LET chunk == SubSeq(cod.pipe, cod.rpos + 1, cod.rpos + k)
             dec == ConnDecode(chunk, 1, cod.hintBuf, cod.pendingData, cod.ascii)
             c1 == [cod EXCEPT !.rpos = @ + k, !.hintBuf = dec.hintBuf,
                               !.pendingData = dec.pending,
                               !.split = @ \/ (dec.hintBuf # <<>> /\ ~dec.err)]
         IN  cod' = IF dec.err THEN [c1 EXCEPT !.err = TRUE, !.lenP = 0]
                    ELSE IF dec.pending # <<>> THEN Deliver(c1, cod.lenP)
                    ELSE c1
    /\ UNCHANGED FrameCodec

NextCodec ==
    \/ ConnWrite
    \/ ConnReadCall
    \/ ConnReadChunk

SpecCodec == InitCodec /\ [][NextCodec]_vars

PadMarker(ascii) == IF ascii THEN 63 ELSE 128

\* padPool taken from the table as it is, marker included.
PadPool_keepsMarker(ascii) == PaddingPool(ascii)

\* pc.padPool: the table's padding pool without the marker (the marker alone
\* when nothing else is left).
PadPool(ascii) ==
    LET rest == SelectSeq(PaddingPool(ascii), LAMBDA b : b # PadMarker(ascii))
    IN  IF rest = <<>> THEN <<PadMarker(ascii)>> ELSE rest

\* encodeGroup: 0x40 | group, or ((group & 0x30) << 1) | (group & 0x0F).
encodeGroup(ascii, group) ==
    IF ascii THEN 64 + group ELSE (group \div 16) * 32 + (group % 16)

\* Read's inlined decodeGroup: b & 0x3F, or ((b >> 1) & 0x30) | (b & 0x0F).
decodeGroup(ascii, b) ==
    IF ascii THEN b % 64 ELSE ((b \div 32) % 4) * 16 + (b % 16)

\* The writer's state while a call runs:
\* st = [rng, cd (padCountdown), bitBuf, bitCount, out].
\* out = append(out, pc.getPaddingByte()); pc.padCountdown = pc.rng.Intn(pc.padInterval) + 1
PadNow(st, ascii, interval) ==
    LET x1 == RngNext(st.rng)
        x2 == RngNext(x1)
        pads == PadPool(ascii)
    IN  [st EXCEPT !.rng = x2, !.cd = (x2 % interval) + 1,
                   !.out = Append(@, pads[(x1 % Len(pads)) + 1])]

\* for pc.bitCount >= 6 { ... }: emit the complete groups of the accumulator.
RECURSIVE DrainGroups(_, _, _)
DrainGroups(st, ascii, interval) ==
    IF st.bitCount < 6 THEN st
    ELSE LET bc == st.bitCount - 6
             group == (st.bitBuf \div (2 ^ bc)) % 256
             s1 == [st EXCEPT !.bitCount = bc,
                              !.bitBuf = IF bc = 0 THEN 0 ELSE @ % (2 ^ bc),
                              !.cd = @ - 1]
             s2 == IF s1.cd <= 0 THEN PadNow(s1, ascii, interval) ELSE s1
         IN  DrainGroups([s2 EXCEPT !.out = Append(@, encodeGroup(ascii, group % 64))],
                         ascii, interval)

\* One byte through the bit accumulator (head and tail paths of Write).
SlowByte(st, b, ascii, interval) ==
    DrainGroups([st EXCEPT !.bitBuf = @ * 256 + b, !.bitCount = @ + 8], ascii, interval)

\* Head path: for pc.bitCount > 0 && i < n.
RECURSIVE HeadPath(_, _, _, _, _)
HeadPath(st, p, i, ascii, interval) ==
    IF st.bitCount > 0 /\ i <= Len(p)
    THEN HeadPath(SlowByte(st, p[i], ascii, interval), p, i + 1, ascii, interval)
    ELSE [st |-> st, i |-> i]

\* Fast path: for i+2 < n, three bytes become four groups.
RECURSIVE FastPath(_, _, _, _, _)
FastPath(st, p, i, ascii, interval) ==
    IF i + 2 > Len(p) THEN [st |-> st, i |-> i]
    ELSE LET s1 == IF st.cd <= 0 THEN PadNow(st, ascii, interval) ELSE st
             b1 == p[i]
             b2 == p[i + 1]
             b3 == p[i + 2]
             g1 == b1 \div 4
             g2 == (b1 % 4) * 16 + b2 \div 16
             g3 == (b2 % 16) * 4 + b3 \div 64
             g4 == b3 % 64
         IN  FastPath([s1 EXCEPT !.cd = @ - 4,
                                 !.out = @ \o << encodeGroup(ascii, g1), encodeGroup(ascii, g2),
                                                 encodeGroup(ascii, g3), encodeGroup(ascii, g4) >>],
                      p, i + 3, ascii, interval)

\* Tail path: for ; i < n; i++.
RECURSIVE TailPath(_, _, _, _, _)
TailPath(st, p, i, ascii, interval) ==
    IF i > Len(p) THEN st
    ELSE TailPath(SlowByte(st, p[i], ascii, interval), p, i + 1, ascii, interval)

\* Write without its end: the trailing bits stay in the accumulator.
WriteTail_keepsBits(st, ascii, interval) == st

\* The end of Write: if pc.bitCount > 0, the rest of the accumulator is
\* left-aligned into one group and followed by the marker.
WriteTail(st, ascii, interval) ==
    IF st.bitCount = 0 THEN st
    ELSE LET s1 == [st EXCEPT !.cd = @ - 1]
             s2 == IF s1.cd <= 0 THEN PadNow(s1, ascii, interval) ELSE s1
             group == (s2.bitBuf * (2 ^ (6 - s2.bitCount))) % 256
         IN  [s2 EXCEPT !.bitBuf = 0, !.bitCount = 0,
                        !.out = @ \o << encodeGroup(ascii, group % 64), PadMarker(ascii) >>]

\* PackedConn.Write(p) with len(p) > 0.
PackedWriteOut(st, p, ascii, interval) ==
    LET h == HeadPath(st, p, 1, ascii, interval)
        f == FastPath(h.st, p, h.i, ascii, interval)
    IN  WriteTail(TailPath(f.st, p, f.i, ascii, interval), ascii, interval)

\* PackedConn.Flush().
PackedFlushOut(st, ascii, interval) ==
    LET s1 == IF st.bitCount = 0 THEN st
              ELSE LET group == (st.bitBuf * (2 ^ (6 - st.bitCount))) % 256
                   IN  [st EXCEPT !.bitBuf = 0, !.bitCount = 0,
                                  !.out = @ \o << encodeGroup(ascii, group % 64),
                                                  PadMarker(ascii) >>]
    IN  IF s1.cd <= 5 THEN PadNow(s1, ascii, interval) ELSE s1

\* readBitBuf is a uint64 that is never masked: four 16-bit limbs, the least
\* significant first.  rBuf = (rBuf << 6) | uint64(group) drops what leaves
\* bit 63.
ZeroBits == <<0, 0, 0, 0>>
RECURSIVE Shl6Limbs(_, _, _)
Shl6Limbs(r, i, carry) ==
    IF i > 4 THEN <<>>
    ELSE << (r[i] * 64 + carry) % 65536 >> \o Shl6Limbs(r, i + 1, (r[i] * 64 + carry) \div 65536)
Shl6Or(r, group) == Shl6Limbs(r, 1, group)

\* byte(rBuf >> rBits) for rBits < 8.
LowByteFrom(r, rBits) == (((r[2] % 256) * 65536 + r[1]) \div (2 ^ rBits)) % 256

\* A padding byte in Read: the marker clears the accumulator.
OnPadding_keepsBits(rd, ascii, b) == rd
OnPadding(rd, ascii, b) ==
    IF b = PadMarker(ascii) THEN [rd EXCEPT !.rBuf = ZeroBits, !.rBits = 0] ELSE rd

\* PackedConn.Read's decoding of one chunk; rd = [rBuf, rBits, pending].
RECURSIVE PackedDecode(_, _, _, _)
PackedDecode(chunk, i, rd, ascii) ==
    IF i > Len(chunk) THEN rd
    ELSE IF IsPadding(ascii, chunk[i])
    THEN PackedDecode(chunk, i + 1, OnPadding(rd, ascii, chunk[i]), ascii)
    ELSE LET buf == Shl6Or(rd.rBuf, decodeGroup(ascii, chunk[i]))
             bits == rd.rBits + 6
         IN  IF bits >= 8
             THEN PackedDecode(chunk, i + 1,
                     [rBuf |-> buf, rBits |-> bits - 8,
                      pending |-> Append(rd.pending, LowByteFrom(buf, bits - 8))], ascii)
             ELSE PackedDecode(chunk, i + 1,
                     [rBuf |-> buf, rBits |-> bits, pending |-> rd.pending], ascii)

(***************************************************************************)
(* Specification SpecPacked: a writer and a reader of the packed codec     *)
(* joined by a pipe.                                                       *)
(***************************************************************************)
MaxPacked == 4       \* bytes written in one run
MaxFlushes == 1      \* calls of Flush in one run

\* A run is given by the seed of the writer's generator and by the byte
\* stream of the application: what is sent is a prefix of the stream, cut into
\* messages at any places.  The streams hold every pair of bits at every
\* alignment, the extreme bytes, and bytes that look like the flush markers
\* and the padding of either mode.
PackedRuns ==
    { [seed |-> 1, stream |-> <<27, 228, 63, 128, 16, 0>>],
      [seed |-> 2, stream |-> <<255, 64, 171, 85, 144, 32>>] }

\* padInterval = int(1 / avgRate), or 10000 when avgRate <= 0.0001.
IntervalSet == {1, 5, 10000}

\* NewPackedConn on both ends of the pipe.
NewPackedConn(ascii, interval, seed, stream) ==
    [ on |-> TRUE, ascii |-> ascii, interval |-> interval,
      stream |-> stream,     \* what the application is going to send
      rng |-> RngNext(seed),
      cd |-> RngNext(seed) % (interval + 1),   \* localRng.Intn(interval + 1)
      bitBuf |-> 0, bitCount |-> 0,
      written |-> <<>>, pipe |-> <<>>, rpos |-> 0,
      rBuf |-> ZeroBits, rBits |-> 0,
      pendingData |-> <<>>, delivered |-> <<>>, lenP |-> 0,
      flushes |-> 0,         \* calls of Flush so far
      last |-> "new",        \* the writer's latest call: "write" or "flush"
      split |-> FALSE,       \* a chunk has ended inside a byte
      sock |-> "open",       \* the raw socket under the writer
      closeOut |-> <<>>,     \* what Close's closers wrote to the socket
      closeErr |-> FALSE ]   \* Close returned an error

InitPacked ==
    /\ dc = [pc |-> "off"]
    /\ uc = [pc |-> "off"]
    /\ sl = [pc |-> "off"]
    /\ dns = [pc |-> "off"]
    /\ conf = [pc |-> "off"]
    /\ dl = [pc |-> "off"]
    /\ wr = [pc |-> "off"]
    /\ app = [pc |-> "off"]
    /\ tNow = Zero64
    /\ tField = Zero64
    /\ tVerdict = "none"
    /\ cfg = [impl |-> "none"]
    /\ wire = <<>>
    /\ srv = [pc |-> "off"]
    /\ connNo = 0
    /\ cod = [on |-> FALSE]
    /\ pk \in { NewPackedConn(a, n, r.seed, r.stream) :
                  a \in BOOLEAN, n \in IntervalSet, r \in PackedRuns }

WriterState(out) ==
    [rng |-> pk.rng, cd |-> pk.cd, bitBuf |-> pk.bitBuf, bitCount |-> pk.bitCount, out |-> out]

\* Write(p) with len(p) > 0.
PackedWrite ==
    /\ pk.sock = "open"
    /\ \E n \in 1..(MaxPacked - Len(pk.written)) :
         LET p == SubSeq(pk.stream, Len(pk.written) + 1, Len(pk.written) + n)
             w == PackedWriteOut(WriterState(<<>>), p, pk.ascii, pk.interval)
         IN  pk' = [pk EXCEPT !.rng = w.rng, !.cd = w.cd, !.bitBuf = w.bitBuf,
                              !.bitCount = w.bitCount,
                              !.written = @ \o p, !.pipe = @ \o w.out,
                              !.last = "write"]
    /\ UNCHANGED FramePacked

PackedFlush ==
    /\ pk.sock = "open"
    /\ pk.flushes < MaxFlushes
    /\ LET w == PackedFlushOut(WriterState(<<>>), pk.ascii, pk.interval)
       IN  pk' = [pk EXCEPT !.rng = w.rng, !.cd = w.cd, !.bitBuf = w.bitBuf,
                            !.bitCount = w.bitCount, !.pipe = @ \o w.out,
                            !.flushes = @ + 1, !.last = "flush"]
    /\ UNCHANGED FramePacked

PackedDeliver(c, n) ==
    [c EXCEPT !.delivered = @ \o Take(c.pendingData, n),
              !.pendingData = Drop(@, n),
              !.lenP = 0]

PackedReadCall ==
    /\ pk.lenP = 0
    /\ \E n \in 1..MaxReadBuf :
         pk' = IF pk.pendingData # <<>> THEN PackedDeliver(pk, n)
               ELSE [pk EXCEPT !.lenP = n]
    /\ UNCHANGED FramePacked

\* One round of Read's loop.
PackedReadChunk ==
    /\ pk.lenP > 0
    /\ pk.rpos < Len(pk.pipe)
    /\ \E k \in 1..Min(IOBufferSize, Len(pk.pipe) - pk.rpos) :
         LET chunk == SubSeq(pk.pipe, pk.rpos + 1, pk.rpos + k)
             dec == PackedDecode(chunk, 1,
                       [rBuf |-> pk.rBuf, rBits |-> pk.rBits, pending |-> pk.pendingData],
                       pk.ascii)
             c1 == [pk EXCEPT !.rpos = @ + k, !.rBuf = dec.rBuf, !.rBits = dec.rBits,
                              !.pendingData = dec.pending,
                              !.split = @ \/ dec.rBits # 0]
         IN  pk' = IF dec.pending # <<>> THEN PackedDeliver(c1, pk.lenP) ELSE c1
    /\ UNCHANGED FramePacked

NextPacked ==
    \/ PackedWrite
    \/ PackedFlush
    \/ PackedReadCall
    \/ PackedReadChunk

SpecPacked == InitPacked /\ [][NextPacked]_vars

RunClosers(c) ==
    LET w == PackedFlushOut([rng |-> c.rng, cd |-> c.cd, bitBuf |-> c.bitBuf,
                             bitCount |-> c.bitCount, out |-> <<>>],
                            c.ascii, c.interval)
        c1 == [c EXCEPT !.rng = w.rng, !.cd = w.cd, !.bitBuf = w.bitBuf,
                        !.bitCount = w.bitCount]
    IN  IF c.sock = "open"
        THEN [c1 EXCEPT !.pipe = @ \o w.out, !.closeOut = w.out]
        ELSE [c1 EXCEPT !.closeErr = (w.out # <<>>)]

\* directionalConn.Close: every closer in order, then c.Conn.Close().
directionalConnClose_socketFirst(c) == RunClosers([c EXCEPT !.sock = "closed"])
directionalConnClose(c) == [RunClosers(c) EXCEPT !.sock = "closed"]

DirectionalClose ==
    /\ pk.sock = "open"
    /\ pk' = directionalConnClose(pk)
    /\ UNCHANGED FramePacked

\* The writing side alone: the reader of the pipe plays no part in Close.
NextClose ==
    \/ PackedWrite
    \/ PackedFlush
    \/ DirectionalClose

SpecClose == InitPacked /\ [][NextClose]_vars

\* What a reader decodes from the whole of the wire bytes.
WireDecodes(c) ==
    PackedDecode(c.pipe, 1,
                 [rBuf |-> ZeroBits, rBits |-> 0, pending |-> <<>>],
                 c.ascii).pending

\* C13: closing the composed connection in packed-downlink mode flushes the
\* packed writer before the raw socket is closed: once the socket is closed
\* the flush has not failed on a closed socket, what it emitted is the end of
\* the wire, no bit is left in the writer, and the wire carries every byte
\* that write accepted.
C13_CloseFlushesBeforeSocketClose ==
    (pk.on /\ pk.sock = "closed") =>
        /\ ~pk.closeErr
        /\ pk.bitCount = 0
        /\ Drop(pk.pipe, Len(pk.pipe) - Len(pk.closeOut)) = pk.closeOut
        /\ WireDecodes(pk) = pk.written

\* C13 witness: a connection that had accepted writes was closed, and the
\* flush run by Close put bytes on the wire.
C13_CloseFlushReachedWire ==
    /\ pk.on
    /\ pk.sock = "closed"
    /\ pk.written # <<>>
    /\ pk.closeOut # <<>>

(***************************************************************************)
(* Two tasks calling Write on the same codec instance.  PackedConn.Write   *)
(* and Flush hold pc.writeMu from entry to return; sudoku.Conn.Write takes *)
(* no lock: it draws from sc.rng (a *rand.Rand, which is not safe for      *)
(* concurrent use) while it encodes, then calls sc.Conn.Write(out) once.   *)
(***************************************************************************)
Tasks == {1, 2}

\* What each task passes to Write.
TaskInput == <<(<<27>>), (<<228, 63>>)>>

\* The writer state of a new codec of either kind.
NewWriter(kind, seed, interval) ==
    IF kind = "packed"
    THEN [rng |-> RngNext(seed), cd |-> RngNext(seed) % (interval + 1),
          bitBuf |-> 0, bitCount |-> 0]
    ELSE [rng |-> seed, cd |-> 0, bitBuf |-> 0, bitCount |-> 0]

\* The encoding part of Write(p), started from the writer state st: the
\* state it leaves and the bytes it hands to the socket.
WriteOutOf(c, st, p) ==
    IF c.kind = "packed"
    THEN LET w == PackedWriteOut([rng |-> st.rng, cd |-> st.cd,
                                  bitBuf |-> st.bitBuf,
                                  bitCount |-> st.bitCount, out |-> <<>>],
                                 p, c.ascii, c.interval)
         IN  [st |-> [rng |-> w.rng, cd |-> w.cd, bitBuf |-> w.bitBuf,
                      bitCount |-> w.bitCount],
              out |-> w.out]
    ELSE LET w == ConnWriteOut(st.rng, p, c.ascii, c.rate)
         IN  [st |-> [st EXCEPT !.rng = w.rng], out |-> w.out]

NewShared(kind, ascii, seed, rate, interval) ==
    [pc |-> "run", kind |-> kind, ascii |-> ascii, rate |-> rate,
     interval |-> interval,
     st0 |-> NewWriter(kind, seed, interval),   \* the state at construction
     st |-> NewWriter(kind, seed, interval),    \* the shared writer state
     mu |-> 0,                                  \* holder of writeMu, or 0
     task |-> [t \in Tasks |-> [pc |-> "idle", seen |-> NewWriter(kind, seed, interval),
                                out |-> <<>>]],
     sock |-> <<>>]                             \* the bytes given to the socket

FrameWrite == <<tNow, tField, tVerdict, cfg, wire, srv, connNo, cod, pk, app, dl, conf, dns, sl, uc, dc>>

InitWrite ==
    /\ dc = [pc |-> "off"]
    /\ uc = [pc |-> "off"]
    /\ sl = [pc |-> "off"]
    /\ dns = [pc |-> "off"]
    /\ conf = [pc |-> "off"]
    /\ dl = [pc |-> "off"]
    /\ wr \in { NewShared("conn", a, s, r, 1) :
                  a \in BOOLEAN, s \in {1, 2}, r \in {0, 30} }
              \cup { NewShared("packed", a, s, 0, n) :
                       a \in BOOLEAN, s \in {1, 2}, n \in {1, 5} }
    /\ tNow = Zero64
    /\ tField = Zero64
    /\ tVerdict = "none"
    /\ cfg = [impl |-> "none"]
    /\ wire = <<>>
    /\ srv = [pc |-> "off"]
    /\ connNo = 0
    /\ cod = [on |-> FALSE]
    /\ pk = [on |-> FALSE]
    /\ app = [pc |-> "off"]

\* A task enters Write.  PackedConn: pc.writeMu.Lock(); sudoku.Conn: nothing
\* to wait for.  From here on it reads and writes the shared writer state.
WriteEnter ==
    /\ \E t \in Tasks :
          /\ wr.task[t].pc = "idle"
          /\ wr.kind = "packed" => wr.mu = 0
          /\ wr' = [wr EXCEPT !.task[t].pc = "encode",
                              !.task[t].seen = wr.st,
                              !.mu = IF wr.kind = "packed" THEN t ELSE @]
    /\ UNCHANGED FrameWrite

\* The task encodes p.  Its loads and stores of the generator are not
\* ordered with those of another task inside Write: it works from the state
\* as it is now, or from the state it loaded before the other task stored
\* (both then draw the same numbers), and stores its own result.
WriteEncode ==
    /\ \E t \in Tasks :
          /\ wr.task[t].pc = "encode"
          /\ \E from \in {wr.st, wr.task[t].seen} :
                LET w == WriteOutOf(wr, from, TaskInput[t])
                IN  wr' = [wr EXCEPT !.st = w.st, !.task[t].out = w.out,
                                     !.task[t].pc = "send"]
    /\ UNCHANGED FrameWrite

\* Conn.Write(out) on the raw socket, and the return from Write (which
\* releases writeMu in PackedConn).
WriteSend ==
    /\ \E t \in Tasks :
          /\ wr.task[t].pc = "send"
          /\ wr' = [wr EXCEPT !.sock = @ \o wr.task[t].out,
                              !.task[t].pc = "done",
                              !.mu = IF wr.kind = "packed" THEN 0 ELSE @]
    /\ UNCHANGED FrameWrite

NextWrite ==
    \/ WriteEnter
    \/ WriteEncode
    \/ WriteSend

SpecWrite == InitWrite /\ [][NextWrite]_vars

\* The two calls run one after the other in the order ord.
SerialWrites(c, ord) ==
    LET w1 == WriteOutOf(c, c.st0, TaskInput[ord[1]])
        w2 == WriteOutOf(c, w1.st, TaskInput[ord[2]])
    IN  [st |-> w2.st, sock |-> w1.out \o w2.out]

InsideWrite(t) == wr.task[t].pc \in {"encode", "send"}

\* C14: writes on one codec instance are serialised by a mutex: two tasks
\* are never inside Write at the same time, the bytes one call hands to the
\* socket are never interleaved with those of the other, and when both calls
\* have returned the writer's state and the wire are those of the two calls
\* run one after the other.
C14_WritesSerialised ==
    wr.pc = "run" =>
        /\ ~(InsideWrite(1) /\ InsideWrite(2))
        /\ wr.sock \in { <<>>, wr.task[1].out, wr.task[2].out,
                         wr.task[1].out \o wr.task[2].out,
                         wr.task[2].out \o wr.task[1].out }
        /\ (\A t \in Tasks : wr.task[t].pc = "done") =>
              \E ord \in { <<1, 2>>, <<2, 1>> } :
                 /\ wr.st = SerialWrites(wr, ord).st
                 /\ wr.sock = SerialWrites(wr, ord).sock

\* The same for the packed codec alone, whose Write holds writeMu.
C14_PackedWritesSerialised == wr.pc = "run" /\ wr.kind = "packed" => C14_WritesSerialised

(***************************************************************************)
(* The server's connection handler after the handshake: handleServerConn   *)
(* reads the first application byte, then either runs a UDP-over-TCP       *)
(* session (HandleUoTServer) or parses the destination address record,     *)
(* dials the destination and relays.                                       *)
(***************************************************************************)
UoTMagicByte == 238
uotVersion == 1
maxUoTPayload == 65536

\* A destination: type 1 (IPv4, 4 bytes), 3 (DNS name), 4 (IPv6, 16 bytes).
NoAddr == [t |-> 0, host |-> <<>>, port |-> 0]

\* protocol.WriteAddress: type, (length,) host bytes, 2-byte big-endian port.
WriteAddress(a) ==
    <<a.t>> \o (IF a.t = 3 THEN <<Len(a.host)>> ELSE <<>>) \o a.host
            \o <<a.port \div 256, a.port % 256>>

\* protocol.ReadAddress on the bytes s that the reader can still deliver:
\* "short" when they end inside the record, "invalid" on an unknown type or
\* an empty DNS name; used is the number of bytes taken from the reader.
ReadAddress(s) ==
    IF Len(s) = 0 THEN [res |-> "short", used |-> 0, addr |-> NoAddr]
    ELSE IF s[1] \notin {1, 3, 4}
    THEN [res |-> "invalid", used |-> 1, addr |-> NoAddr]
    ELSE IF s[1] = 3 /\ Len(s) < 2
    THEN [res |-> "short", used |-> 1, addr |-> NoAddr]
    ELSE IF s[1] = 3 /\ s[2] = 0
    THEN [res |-> "invalid", used |-> 2, addr |-> NoAddr]
    ELSE LET off == IF s[1] = 3 THEN 2 ELSE 1
             hl  == IF s[1] = 1 THEN 4 ELSE IF s[1] = 4 THEN 16 ELSE s[2]
         IN  IF Len(s) < off + hl + 2
             THEN [res |-> "short", used |-> Len(s), addr |-> NoAddr]
             ELSE [res |-> "ok", used |-> off + hl + 2,
                   addr |-> [t |-> s[1],
                             host |-> SubSeq(s, off + 1, off + hl),
                             port |-> s[off + hl + 1] * 256 + s[off + hl + 2]]]

\* The 4-byte frame header: address length and payload length, big-endian
\* uint16 each.
uotHeader(addrLen, payloadLen) ==
    <<(addrLen \div 256) % 256, addrLen % 256,
      (payloadLen \div 256) % 256, payloadLen % 256>>

\* WriteUoTDatagram: the three w.Write calls of one frame, in order.
WriteUoTDatagram_addressFirst(a, payload) ==
    <<WriteAddress(a), uotHeader(Len(WriteAddress(a)), Len(payload)), payload>>
WriteUoTDatagram(a, payload) ==
    <<uotHeader(Len(WriteAddress(a)), Len(payload)), WriteAddress(a), payload>>

\* The bytes of one frame whose address field is ab (valid or not).
FrameBytes(ab, payload) == uotHeader(Len(ab), Len(payload)) \o ab \o payload

\* ReadUoTDatagram on the bytes s that the tunnel can still deliver.
ReadUoTDatagram(s) ==
    LET none == [res |-> "short", used |-> Len(s), addr |-> NoAddr,
                 payload |-> <<>>, why |-> "read"]
    IN  IF Len(s) < 4 THEN none
        ELSE LET addrLen    == s[1] * 256 + s[2]
                 payloadLen == s[3] * 256 + s[4]
             IN  IF addrLen <= 0 \/ addrLen > maxUoTPayload
                 THEN [none EXCEPT !.res = "invalid", !.used = 4,
                                   !.why = "invalid address length"]
                 ELSE IF payloadLen < 0 \/ payloadLen > maxUoTPayload
                 THEN [none EXCEPT !.res = "invalid", !.used = 4,
                                   !.why = "invalid payload length"]
                 ELSE IF Len(s) < 4 + addrLen THEN none
                 ELSE LET a == ReadAddress(SubSeq(s, 5, 4 + addrLen))
                      IN  IF a.res # "ok"
                          THEN [none EXCEPT !.res = "invalid",
                                            !.used = 4 + addrLen,
                                            !.why = "decode address"]
                          ELSE IF Len(s) < 4 + addrLen + payloadLen THEN none
                          ELSE [res |-> "ok",
                                used |-> 4 + addrLen + payloadLen,
                                addr |-> a.addr,
                                payload |-> SubSeq(s, 5 + addrLen,
                                                   4 + addrLen + payloadLen),
                                why |-> ""]

\* net.ResolveUDPAddr("udp", host:port): an IP literal always resolves, a
\* DNS name resolves unless the resolver does not know it.
UnknownNames == { <<110>> }
ResolveUDPAddr(a) == IF a.t = 3 /\ a.host \in UnknownNames THEN "err" ELSE "ok"

\* Destinations and frames of the runs.
Dest4       == [t |-> 1, host |-> <<10, 0, 0, 1>>, port |-> 53]
DestOther   == [t |-> 1, host |-> <<10, 0, 0, 2>>, port |-> 4660]
DestName    == [t |-> 3, host |-> <<97, 98>>, port |-> 443]
DestUnknown == [t |-> 3, host |-> <<110>>, port |-> 53]

\* What the client sends after the mode byte on a TCP request: nothing, an
\* address record followed by payload, a record of unknown type, a record
\* cut short, a UoT magic byte alone and one with a wrong version.
TcpStreams ==
    { <<>>,
      WriteAddress(Dest4) \o <<71, 69>>,
      WriteAddress(DestName) \o <<71>>,
      <<9, 1, 2>>,
      <<1, 10, 0>>,
      <<UoTMagicByte>>,
      <<UoTMagicByte, 2>> }

\* The frames of a UoT session, by address field ab and payload: valid ones,
\* one whose name does not resolve, one whose address has an unknown type,
\* one with an empty address field.
UoTFrameRuns ==
    LET ok4     == [ab |-> WriteAddress(Dest4), payload |-> <<7>>]
        okName  == [ab |-> WriteAddress(DestName), payload |-> <<>>]
        unknown == [ab |-> WriteAddress(DestUnknown), payload |-> <<5>>]
        badType == [ab |-> <<9>>, payload |-> <<5>>]
        noAddr  == [ab |-> <<>>, payload |-> <<5>>]
    IN  { <<>>, <<ok4, okName>>, <<unknown, ok4>>, <<badType, ok4>>,
          <<noAddr, ok4>> }

RECURSIVE FramesBytes(_)
FramesBytes(fs) ==
    IF fs = <<>> THEN <<>>
    ELSE FrameBytes(fs[1].ab, fs[1].payload) \o FramesBytes(Tail(fs))

\* WriteUoTPreface followed by the frames.
UoTStream(fs) == <<UoTMagicByte, uotVersion>> \o FramesBytes(fs)

\* The datagrams that arrive on the session's UDP socket, in order.
UdpArrivals ==
    << [from |-> Dest4, payload |-> <<8>>],
       [from |-> DestOther, payload |-> <<>>] >>

\* The handler's state when HandshakeAndUpgradeWithTables is called.  tunnel
\* stands for the raw socket with the codec and the AEAD stream on it.
FreshApp(stream, frames, closes) ==
    [pc |-> "handshake", stream |-> stream, frames |-> frames,
     closes |-> closes, pos |-> 0, buf |-> <<>>, parsed |-> <<>>,
     dest |-> NoAddr, relayed |-> <<>>,
     tunnel |-> "open", target |-> "none", udp |-> "none",
     g1 |-> "idle", g2 |-> "idle", once |-> FALSE, err |-> "",
     nClose |-> 0,      \* runs of closeAll's once.Do body (two Close calls each)
     errCh |-> <<>>,    \* errCh, a channel with room for one error
     calls |-> <<>>,    \* the errors closeAll was called with, in order
     ret |-> "",        \* what HandleUoTServer returned
     uin |-> 0, wq |-> <<>>, out |-> <<>>, sent |-> <<>>]

FrameApp == <<tNow, tField, tVerdict, cfg, wire, srv, connNo, cod, pk, wr, dl, conf, dns, sl, uc, dc>>

InitApp ==
    /\ dc = [pc |-> "off"]
    /\ uc = [pc |-> "off"]
    /\ sl = [pc |-> "off"]
    /\ dns = [pc |-> "off"]
    /\ conf = [pc |-> "off"]
    /\ dl = [pc |-> "off"]
    /\ wr = [pc |-> "off"]
    /\ app \in { FreshApp(s, <<>>, c) : s \in TcpStreams, c \in BOOLEAN }
               \cup { FreshApp(UoTStream(f), f, c) :
                        f \in UoTFrameRuns, c \in BOOLEAN }
    /\ tNow = Zero64
    /\ tField = Zero64
    /\ tVerdict = "none"
    /\ cfg = [impl |-> "none"]
    /\ wire = <<>>
    /\ srv = [pc |-> "off"]
    /\ connNo = 0
    /\ cod = [on |-> FALSE]
    /\ pk = [on |-> FALSE]

\* The bytes the tunnel can still deliver.
Rest(a) == SubSeq(a.stream, a.pos + 1, Len(a.stream))

\* closeAll: once.Do(conn.Close(); pConn.Close(); errCh <- err).
closeAll_tunnelOnly(a, err) ==
    IF a.once THEN [a EXCEPT !.calls = Append(@, err)]
    ELSE [a EXCEPT !.once = TRUE, !.tunnel = "closed", !.err = err,
                   !.nClose = @ + 1, !.errCh = Append(@, err),
                   !.calls = Append(@, err)]
\* closeAll without the sync.Once: every call closes and sends.
closeAll_everyCall(a, err) ==
    [a EXCEPT !.once = TRUE, !.tunnel = "closed", !.udp = "closed", !.err = err,
              !.nClose = @ + 1, !.errCh = Append(@, err),
              !.calls = Append(@, err)]
closeAll(a, err) ==
    IF a.once THEN [a EXCEPT !.calls = Append(@, err)]
    ELSE [a EXCEPT !.once = TRUE, !.tunnel = "closed", !.udp = "closed",
                   !.err = err,
                   !.nClose = @ + 1, !.errCh = Append(@, err),
                   !.calls = Append(@, err)]

\* HandshakeAndUpgradeWithTables returns; on an error the handler hands the
\* connection to HandleSuspicious or closes rawConn, and returns.
Handshake ==
    /\ app.pc = "handshake"
    /\ \E r \in {"ok", "suspicious", "handshake failed"} :
          app' = IF r = "ok" THEN [app EXCEPT !.pc = "first"]
                 ELSE [app EXCEPT !.pc = "returned", !.tunnel = "closed",
                                  !.err = r]
    /\ UNCHANGED FrameApp

\* io.ReadFull(tunnelConn, firstByte) and the UoT test on it.
FirstByte ==
    /\ app.pc = "first"
    /\ IF Rest(app) = <<>>
       THEN /\ app.closes
            /\ app' = [app EXCEPT !.pc = "returned", !.err = "first byte"]
       ELSE LET b == app.stream[app.pos + 1]
            IN  app' = IF b = UoTMagicByte
                       THEN [app EXCEPT !.pos = @ + 1, !.pc = "version"]
                       ELSE [app EXCEPT !.pos = @ + 1, !.pc = "address",
                                        !.buf = NewPreBufferedConn(<<b>>)]
    /\ UNCHANGED FrameApp

\* HandleUoTServer: the version byte.
Version ==
    /\ app.pc = "version"
    /\ IF Rest(app) = <<>>
       THEN /\ app.closes
            /\ app' = [app EXCEPT !.pc = "returned",
                                  !.err = "read uot version"]
       ELSE app' = IF app.stream[app.pos + 1] # uotVersion
                   THEN [app EXCEPT !.pos = @ + 1, !.pc = "returned",
                                    !.err = "unsupported uot version"]
                   ELSE [app EXCEPT !.pos = @ + 1, !.pc = "listen"]
    /\ UNCHANGED FrameApp

\* HandleUoTServer: net.ListenPacket, then the two loops are started.
Listen ==
    /\ app.pc = "listen"
    /\ \E ok \in BOOLEAN :
          app' = IF ok
                 THEN [app EXCEPT !.pc = "session", !.udp = "open",
                                  !.g1 = "read", !.g2 = "read"]
                 ELSE [app EXCEPT !.pc = "returned",
                                  !.err = "listen udp for uot"]
    /\ UNCHANGED FrameApp

\* UDP to tunnel loop: pConn.ReadFrom returns a datagram, or fails (the
\* socket is closed, or an I/O error).
UdpRead ==
    /\ app.g1 = "read"
    /\ \/ /\ app.udp = "open"
          /\ app.uin < Len(UdpArrivals)
          /\ LET d == UdpArrivals[app.uin + 1]
             IN  app' = [app EXCEPT !.uin = @ + 1, !.g1 = "write",
                                    !.wq = WriteUoTDatagram(d.from, d.payload)]
       \/ app' = [closeAll(app, "udp read") EXCEPT !.g1 = "done"]
    /\ UNCHANGED FrameApp

\* UDP to tunnel loop: the next w.Write of WriteUoTDatagram.
TunnelWrite ==
    /\ app.g1 = "write"
    /\ \/ /\ app.tunnel = "open"
          /\ app' = [app EXCEPT !.out = @ \o Head(app.wq), !.wq = Tail(@),
                                !.g1 = IF Len(app.wq) = 1 THEN "read"
                                       ELSE "write"]
       \/ app' = [closeAll(app, "tunnel write") EXCEPT !.g1 = "done"]
    /\ UNCHANGED FrameApp

\* Tunnel to UDP loop: ReadUoTDatagram, net.ResolveUDPAddr, pConn.WriteTo.
TunnelRead ==
    /\ app.g2 = "read"
    /\ LET r    == ReadUoTDatagram(Rest(app))
           past == [app EXCEPT !.pos = @ + r.used]
       IN  \/ /\ app.tunnel = "open"
              /\ r.res = "ok"
              /\ IF ResolveUDPAddr(r.addr) # "ok"
                 THEN app' = past
                 ELSE \/ /\ app.udp = "open"
                         /\ app' = [past EXCEPT !.sent =
                                      Append(@, [to |-> r.addr,
                                                 payload |-> r.payload])]
                      \/ app' = [closeAll(past, "udp write")
                                   EXCEPT !.g2 = "done"]
           \/ /\ app.tunnel = "open"
              /\ r.res = "invalid"
              /\ app' = [closeAll(past, r.why) EXCEPT !.g2 = "done"]
           \/ /\ app.tunnel = "closed" \/ r.res = "short"
              /\ app.tunnel = "open" /\ r.res = "short" => app.closes
              /\ app' = [closeAll(app, "tunnel read") EXCEPT !.g2 = "done"]
    /\ UNCHANGED FrameApp

\* HandleUoTServer returns what closeAll put on errCh; the handler returns.
SessionEnd ==
    /\ app.pc = "session"
    /\ app.errCh # <<>>
    /\ app' = [app EXCEPT !.pc = "returned", !.ret = Head(app.errCh),
                          !.errCh = Tail(@)]
    /\ UNCHANGED FrameApp

\* protocol.ReadAddress(prefixedConn): the re-inserted byte first, then the
\* tunnel.
Address ==
    /\ app.pc = "address"
    /\ LET avail == app.buf \o Rest(app)
           r     == ReadAddress(avail)
           took  == [app EXCEPT !.parsed = SubSeq(avail, 1, r.used),
                                !.buf = SubSeq(@, r.used + 1, Len(@)),
                                !.pos = IF r.used > Len(app.buf)
                                        THEN @ + r.used - Len(app.buf) ELSE @]
       IN  IF r.res = "ok"
           THEN app' = [took EXCEPT !.pc = "dial", !.dest = r.addr]
           ELSE /\ r.res = "invalid" \/ app.closes
                /\ app' = [took EXCEPT !.pc = "returned",
                                       !.err = "read address"]
    /\ UNCHANGED FrameApp

\* net.DialTimeout("tcp", destAddrStr, 10s).
Dial ==
    /\ app.pc = "dial"
    /\ \E ok \in BOOLEAN :
          app' = IF ok THEN [app EXCEPT !.pc = "pipe", !.target = "open"]
                 ELSE [app EXCEPT !.pc = "returned", !.err = "dial"]
    /\ UNCHANGED FrameApp

\* pipeConn(prefixedConn, target): relays until one side ends, then closes
\* both.
Pipe ==
    /\ app.pc = "pipe"
    /\ app' = [app EXCEPT !.relayed = app.buf \o Rest(app), !.buf = <<>>,
                          !.pos = Len(app.stream), !.tunnel = "closed",
                          !.target = "closed", !.pc = "returned"]
    /\ UNCHANGED FrameApp

NextApp ==
    \/ Handshake
    \/ FirstByte
    \/ Version
    \/ Listen
    \/ UdpRead
    \/ TunnelWrite
    \/ TunnelRead
    \/ SessionEnd
    \/ Address
    \/ Dial
    \/ Pipe

SpecApp == InitApp /\ [][NextApp]_vars

\* C12: every per-connection resource of the server (the raw socket with its
\* codec and AEAD stream, the destination socket, the UDP socket of a UoT
\* session) is released on every exit path of the connection handler: once
\* handleServerConn has returned, none of them is still open.
C12_ReturnedHandlerHoldsNothing ==
    app.pc = "returned" =>
        /\ app.tunnel = "closed"
        /\ app.target # "open"
        /\ app.udp # "open"

\* The address parser has run on this connection.
ParserRan ==
    \/ app.pc \in {"dial", "pipe"}
    \/ app.pc = "returned" /\ app.err \in {"read address", "dial"}
    \/ app.target # "none"

\* C16: when the first application byte is not 0xEE it is re-inserted into
\* the stream: the address parser reads exactly the bytes the client sent
\* after the mode byte, first byte included once, decodes the destination
\* the client wrote, and the relay gets the bytes that follow the record.
C16_FirstByteReinserted ==
    (app.pc # "off" /\ ParserRan) =>
        /\ app.stream[1] # UoTMagicByte
        /\ app.parsed = Take(app.stream, ReadAddress(app.stream).used)
        /\ app.pc \in {"dial", "pipe"} =>
              /\ ReadAddress(app.stream).res = "ok"
              /\ app.dest = ReadAddress(app.stream).addr
        /\ app.target = "closed" => app.parsed \o app.relayed = app.stream

\* C16 witness: a request whose record starts with the type byte of a DNS
\* name was parsed and relayed.
C16_NameRecordParsedAndRelayed ==
    /\ app.pc = "returned"
    /\ app.target = "closed"
    /\ app.dest = DestName
    /\ app.parsed = WriteAddress(DestName)
    /\ app.relayed # <<>>

\* A frame the session can forward: its address field decodes and resolves.
Forwardable(f) ==
    /\ ReadAddress(f.ab).res = "ok"
    /\ ResolveUDPAddr(ReadAddress(f.ab).addr) = "ok"

\* The datagrams of the forwardable frames of fs, in order.
RECURSIVE ForwardedOf(_)
ForwardedOf(fs) ==
    IF fs = <<>> THEN <<>>
    ELSE (IF Forwardable(fs[1])
          THEN <<[to |-> ReadAddress(fs[1].ab).addr, payload |-> fs[1].payload]>>
          ELSE <<>>) \o ForwardedOf(Tail(fs))

\* A frame with an address field that is there but does not decode.
Undecodable(f) == f.ab # <<>> /\ ReadAddress(f.ab).res # "ok"

\* C17: in a server UoT session an invalid or unresolvable destination
\* address in a tunnel frame only causes that frame to be skipped: no such
\* frame ends the session, and when the loop has read every frame of a
\* session that no error has ended, it has forwarded every frame with a good
\* address, in order.
C17_BadAddressSkipsOneFrame ==
    (app.pc # "off" /\ \A k \in 1..Len(app.frames) : app.frames[k].ab # <<>>) =>
        /\ app.err # "decode address"
        /\ (app.pc = "session" /\ ~app.once /\ app.pos = Len(app.stream)) =>
              app.sent = ForwardedOf(app.frames)

\* The same for sessions whose address fields all decode (a name that does
\* not resolve is the only bad address).
C17_UnresolvableSkipsOneFrame ==
    (\A k \in 1..Len(app.frames) : ~Undecodable(app.frames[k]))
        => C17_BadAddressSkipsOneFrame

\* A frame after a frame with an unresolvable name was forwarded.
C17_FrameAfterUnresolvableForwarded ==
    /\ app.pc = "session"
    /\ ~app.once
    /\ Len(app.frames) = 2
    /\ ~Forwardable(app.frames[1])
    /\ app.sent = <<[to |-> Dest4, payload |-> <<7>>]>>

\* Once closeAll has closed the tunnel and the UDP socket, a loop blocked in
\* ReadFrom, in ReadUoTDatagram or in a write gets an error from the closed
\* socket and takes its next step; nothing else is assumed to happen.
SpecAppLive ==
    /\ InitApp
    /\ [][NextApp]_vars
    /\ WF_vars(app.once /\ UdpRead)
    /\ WF_vars(app.once /\ TunnelWrite)
    /\ WF_vars(app.once /\ TunnelRead)

\* C18: any I/O error in either direction of a server UoT session ends the
\* session and closes both the tunnel connection and the UDP socket, after
\* which both directional loops terminate: a loop that has stopped has left
\* the session ended with both sockets closed, and once the session is
\* ended both loops eventually stop.
C18_ErrorEndsSessionAndLoops ==
    /\ [](app.g1 = "done" \/ app.g2 = "done"
            => app.once /\ app.tunnel = "closed" /\ app.udp = "closed")
    /\ (app.once ~> (app.g1 = "done" /\ app.g2 = "done"))

\* C18 witness: a write to the UDP socket failed after a datagram had been
\* forwarded; the session is ended and both loops have stopped.
C18_BothLoopsStoppedAfterError ==
    /\ app.once
    /\ app.err = "udp write"
    /\ app.sent # <<>>
    /\ app.g1 = "done"
    /\ app.g2 = "done"
    /\ app.tunnel = "closed"
    /\ app.udp = "closed"

\* The bytes the UDP to tunnel loop writes for the datagrams ds, frame after
\* frame.
RECURSIVE WrittenFor(_)
WrittenFor(ds) ==
    IF ds = <<>> THEN <<>>
    ELSE LET w == WriteUoTDatagram(ds[1].from, ds[1].payload)
         IN  w[1] \o w[2] \o w[3] \o WrittenFor(Tail(ds))

\* What is left of a frame that is being written.
RECURSIVE Flat(_)
Flat(q) == IF q = <<>> THEN <<>> ELSE Head(q) \o Flat(Tail(q))

\* The frames the peer reads from the tunnel bytes s with ReadUoTDatagram,
\* one call after the other, until the bytes run out.
RECURSIVE ReadFrames(_)
ReadFrames(s) ==
    LET r == ReadUoTDatagram(s)
    IN  IF r.res # "ok" THEN <<>>
        ELSE <<[from |-> r.addr, payload |-> r.payload]>>
                 \o ReadFrames(Drop(s, r.used))

\* C19: UoT frames are delivered in the order they were written on the
\* tunnel, and the header, address and payload bytes of one frame are never
\* interleaved with bytes of another frame: the tunnel carries the frames of
\* the datagrams in the order they were read from the UDP socket, each as
\* header, address, payload; the peer reads them back in that order; and the
\* datagrams forwarded from the tunnel follow the order of the client's
\* frames.
C19_FramesInOrderAndWhole ==
    app.pc # "off" =>
        LET read == Take(UdpArrivals, app.uin)
            back == ReadFrames(app.out)
        IN  /\ app.out \o Flat(app.wq) = WrittenFor(read)
            /\ back = Take(read, Len(back))
            /\ app.wq = <<>> => back = read
            /\ app.sent = Take(ForwardedOf(app.frames), Len(app.sent))

\* C19 witness: two frames went each way.
C19_TwoFramesEachWay ==
    /\ app.pc # "off"
    /\ Len(ReadFrames(app.out)) = 2
    /\ Len(app.sent) = 2

(***************************************************************************)
(* Specification SpecDeadline: the read deadline of the handshake.  The    *)
(* peer is a valid client whose bytes arrive in portions (the request line *)
(* and the rest of the HTTP mask, the prelude, the mode byte) and who may  *)
(* stop sending for any length of time before each portion.  A read that   *)
(* needs a portion which has not arrived waits for it; with a deadline set *)
(* the wait ends in a timeout error once the deadline has passed, and a    *)
(* read issued after the deadline has passed fails at once.                *)
(***************************************************************************)
\* The portions a client sends, in order.
Portions(masked) ==
    IF masked THEN <<"req", "hdr", "pre", "mode">> ELSE <<"pre", "mode">>

\* The index of portion name in what this peer sends.
PortionIdx(d, name) ==
    CHOOSE i \in 1..Len(Portions(d.masked)) : Portions(d.masked)[i] = name

\* The handler right after accept.
FreshDeadline(masked) ==
    [ pc |-> "start",
      masked |-> masked,     \* the client sends the HTTP mask
      arrived |-> 0,         \* portions the peer has sent so far
      got |-> 0,             \* portions the server has taken from the socket
      deadline |-> "none",   \* rawConn's read deadline: "none" | "armed" | "expired"
      consumed |-> FALSE,    \* httpmask.ConsumeHeader has consumed the mask
      timedOut |-> FALSE,    \* a read has returned a timeout error
      kind |-> "",           \* the error value: "plain" | "suspicious" | "handshakeError"
      stage |-> "",
      cause |-> "",          \* "timeout" when the error is a read's timeout
      rawClosed |-> FALSE ]

FrameDeadline == <<tNow, tField, tVerdict, wire, srv, connNo, cod, pk, app, wr, conf, dns, sl, uc, dc>>

InitDeadline ==
    /\ dc = [pc |-> "off"]
    /\ uc = [pc |-> "off"]
    /\ sl = [pc |-> "off"]
    /\ dns = [pc |-> "off"]
    /\ conf = [pc |-> "off"]
    /\ cfg \in ConfigSet
    /\ dl \in { FreshDeadline(m) : m \in BOOLEAN }
    /\ dl.masked => ~cfg.noMask
    /\ tNow = Zero64
    /\ tField = Zero64
    /\ tVerdict = "none"
    /\ wire = <<>>
    /\ srv = [pc |-> "off"]
    /\ connNo = 0
    /\ cod = [on |-> FALSE]
    /\ pk = [on |-> FALSE]
    /\ app = [pc |-> "off"]
    /\ wr = [pc |-> "off"]

\* rawConn.SetReadDeadline(time.Now().Add(HandshakeTimeout)) and
\* rawConn.SetReadDeadline(time.Time{}).
SetReadDeadline(d) == [d EXCEPT !.deadline = "armed"]
ClearReadDeadline(d) == [d EXCEPT !.deadline = "none"]

\* A read that needs portion i: "buffered" when the server's buffers hold it,
\* "timeout" when the deadline has passed, "data" when the portion is in the
\* socket, "wait" while the read blocks.
ReadOutcome(d, i) ==
    IF d.got >= i THEN "buffered"
    ELSE IF d.deadline = "expired" THEN "timeout"
    ELSE IF d.arrived >= i THEN "data"
    ELSE "wait"

\* The state after a read with outcome o: a read from the socket takes what
\* has arrived.
AfterRead(d, o) ==
    IF o = "data" THEN [d EXCEPT !.got = d.arrived]
    ELSE IF o = "timeout" THEN [d EXCEPT !.timedOut = TRUE]
    ELSE d

\* The handshake returns an error value.
DeadlineFails(d, kind, stage, o) ==
    [d EXCEPT !.pc = "failed", !.kind = kind, !.stage = stage,
              !.cause = IF o = "timeout" THEN "timeout" ELSE "peer"]

\* The failure of a read of the codec stack, per entry point (see
\* HandshakeFail): tables clears the deadline and returns a SuspiciousError;
\* legacy does the same for the prelude, and for the mode byte closes the
\* stack and returns a plain error; the API closes the stack and then builds
\* the HandshakeError in fail(), which clears the deadline.
StackReadFails(d, stage, o) ==
    CASE cfg.impl = "tables" ->
            DeadlineFails(ClearReadDeadline(d), "suspicious", stage, o)
      [] cfg.impl = "legacy" ->
            IF stage = "mode-read"
            THEN DeadlineFails([d EXCEPT !.rawClosed = TRUE], "plain", stage, o)
            ELSE DeadlineFails(ClearReadDeadline(d), "suspicious", stage, o)
      [] OTHER ->
            DeadlineFails(ClearReadDeadline([d EXCEPT !.rawClosed = TRUE]),
                          "handshakeError", stage, o)

\* After the mask stage: the configuration check of the tunnel entry points,
\* then the codec stack (legacy, after clearing the deadline) or
\* selectTableByProbe, which returns at once with a single table; the tunnel
\* entry points set a new deadline before the prelude is read.
AfterMask(d) ==
    LET d1 == IF cfg.impl = "legacy" THEN ClearReadDeadline(d) ELSE d
    IN  IF cfg.impl # "apis" /\ ConfigRejected
        THEN DeadlineFails(ClearReadDeadline(d1), "plain", "config", "")
        ELSE IF cfg.impl # "legacy" /\ Len(cfg.tables) > 1
        THEN [d1 EXCEPT !.pc = "select"]
        ELSE IF cfg.impl = "apis"
        THEN [d1 EXCEPT !.pc = "prelude"]
        ELSE [SetReadDeadline(ClearReadDeadline(d1)) EXCEPT !.pc = "prelude"]

\* Accept: cfg.Validate() (API), SetReadDeadline, and without mask detection
\* straight on to the codec layer.
DeadlineStart ==
    /\ dl.pc = "start"
    /\ dl' = IF cfg.impl = "apis" /\ ConfigRejected
             THEN DeadlineFails(dl, "plain", "config", "")
             ELSE IF cfg.noMask THEN AfterMask(SetReadDeadline(dl))
             ELSE [SetReadDeadline(dl) EXCEPT !.pc = "peek"]
    /\ UNCHANGED cfg
    /\ UNCHANGED FrameDeadline

\* bufReader.Peek(4); its error is ignored, and fewer than four bytes are
\* not a request line.
DeadlinePeek ==
    /\ dl.pc = "peek"
    /\ LET o == ReadOutcome(dl, 1)
           d1 == AfterRead(dl, o)
       IN  /\ o # "wait"
           /\ dl' = IF o # "timeout" /\ dl.masked
                    THEN [d1 EXCEPT !.pc = "consume"]
                    ELSE AfterMask(d1)
    /\ UNCHANGED cfg
    /\ UNCHANGED FrameDeadline

\* httpmask.ConsumeHeader(bufReader): reads up to the blank line.
DeadlineConsume ==
    /\ dl.pc = "consume"
    /\ LET o == ReadOutcome(dl, PortionIdx(dl, "hdr"))
           d1 == AfterRead(dl, o)
       IN  /\ o # "wait"
           /\ dl' = IF o = "timeout"
                    THEN DeadlineFails(ClearReadDeadline(d1),
                            IF cfg.impl = "apis" THEN "handshakeError" ELSE "suspicious",
                            "mask", o)
                    ELSE AfterMask([d1 EXCEPT !.consumed = TRUE])
    /\ UNCHANGED cfg
    /\ UNCHANGED FrameDeadline

\* The bytes the codec is given start with an HTTP mask nobody consumed.
MaskInCodec(d) == d.masked /\ ~d.consumed

\* selectTableByProbe with several candidates: a candidate succeeds once the
\* probe holds the prelude and the mode byte; until then r.Read(tmp).
DeadlineSelect ==
    /\ dl.pc = "select"
    /\ LET sel == IF cfg.impl = "tables"
                  THEN SetReadDeadline(ClearReadDeadline(dl)) ELSE dl
           bad(o) == DeadlineFails(
                        IF cfg.impl = "tables" THEN ClearReadDeadline(dl) ELSE dl,
                        IF cfg.impl = "apis" THEN "handshakeError" ELSE "suspicious",
                        "select", o)
       IN  IF MaskInCodec(dl) /\ dl.got >= 1
           THEN dl' = bad("")
           ELSE IF dl.got >= PortionIdx(dl, "mode")
           THEN dl' = [sel EXCEPT !.pc = "prelude"]
           ELSE LET o == ReadOutcome(dl, dl.got + 1)
                IN  /\ o # "wait"
                    /\ dl' = IF o = "timeout"
                             THEN [bad(o) EXCEPT !.timedOut = TRUE]
                             ELSE AfterRead(dl, o)
    /\ UNCHANGED cfg
    /\ UNCHANGED FrameDeadline

\* io.ReadFull(cConn, handshakeBuf) and the timestamp check; legacy clears the
\* deadline after the read and sets a new one before the mode byte.
DeadlinePrelude ==
    /\ dl.pc = "prelude"
    /\ LET o == ReadOutcome(dl, IF MaskInCodec(dl) THEN 1 ELSE PortionIdx(dl, "pre"))
           d1 == AfterRead(dl, o)
       IN  /\ o # "wait"
           /\ dl' = IF o = "timeout" \/ MaskInCodec(dl)
                    THEN StackReadFails(d1, "prelude-read", o)
                    ELSE IF cfg.impl = "legacy"
                    THEN [SetReadDeadline(ClearReadDeadline(d1)) EXCEPT !.pc = "mode"]
                    ELSE [d1 EXCEPT !.pc = "mode"]
    /\ UNCHANGED cfg
    /\ UNCHANGED FrameDeadline

\* io.ReadFull(cConn, modeBuf), SetReadDeadline(time.Time{}) and the mode check.
DeadlineMode ==
    /\ dl.pc = "mode"
    /\ LET o == ReadOutcome(dl, PortionIdx(dl, "mode"))
           d1 == AfterRead(dl, o)
       IN  /\ o # "wait"
           /\ dl' = IF o = "timeout"
                    THEN StackReadFails(d1, "mode-read", o)
                    ELSE [ClearReadDeadline(d1) EXCEPT !.pc = "established"]
    /\ UNCHANGED cfg
    /\ UNCHANGED FrameDeadline

\* The peer sends its next portion.
PeerSends ==
    /\ dl.pc \notin {"off", "established", "failed", "fallback", "closed"}
    /\ dl.arrived < Len(Portions(dl.masked))
    /\ dl' = [dl EXCEPT !.arrived = @ + 1]
    /\ UNCHANGED cfg
    /\ UNCHANGED FrameDeadline

\* HandshakeTimeout passes since the deadline was set.
DeadlinePasses ==
    /\ dl.pc \notin {"off", "established", "failed", "fallback", "closed"}
    /\ dl.deadline = "armed"
    /\ dl' = [dl EXCEPT !.deadline = "expired"]
    /\ UNCHANGED cfg
    /\ UNCHANGED FrameDeadline

\* handleServerConn on the error (see Dispatch).
DeadlineDispatch ==
    /\ dl.pc = "failed"
    /\ cfg.impl # "apis"
    /\ dl' = IF dl.kind = "suspicious" /\ cfg.action = "fallback"
             THEN [dl EXCEPT !.pc = "fallback"]
             ELSE [dl EXCEPT !.pc = "closed", !.rawClosed = TRUE]
    /\ UNCHANGED cfg
    /\ UNCHANGED FrameDeadline

NextDeadline ==
    \/ DeadlineStart
    \/ DeadlinePeek
    \/ DeadlineConsume
    \/ DeadlineSelect
    \/ DeadlinePrelude
    \/ DeadlineMode
    \/ PeerSends
    \/ DeadlinePasses
    \/ DeadlineDispatch

SpecDeadline == InitDeadline /\ [][NextDeadline]_vars

\* The portion the handshake's current read needs (0: no read pending).
PortionNeeded ==
    CASE dl.pc = "peek" -> 1
      [] dl.pc = "consume" -> PortionIdx(dl, "hdr")
      [] dl.pc = "select" ->
            IF MaskInCodec(dl) /\ dl.got >= 1 THEN 0
            ELSE IF dl.got >= PortionIdx(dl, "mode") THEN 0 ELSE dl.got + 1
      [] dl.pc = "prelude" -> IF MaskInCodec(dl) THEN 1 ELSE PortionIdx(dl, "pre")
      [] dl.pc = "mode" -> PortionIdx(dl, "mode")
      [] OTHER -> 0

\* The handshake is in a read that has to go to the raw socket.
ReadsRawSocket == PortionNeeded > dl.got

\* Every read of the raw socket up to and including the mode byte has a
\* deadline.
DeadlineOnEveryRead == ReadsRawSocket => dl.deadline # "none"

\* C22: the handshake timeout is applied as a deadline on the raw socket for
\* every server-side read up to and including the read of the downlink-mode
\* byte, and its expiry is reported as a handshake failure that triggers
\* fallback: after a read has timed out the handshake does not succeed, the
\* error handed on is a Suspicious error (the API's HandshakeError) on a raw
\* connection that is still open, and a server whose suspicious action is
\* fallback does not just close the connection.
C22_TimeoutIsHandshakeFailureWithFallback ==
    /\ DeadlineOnEveryRead
    /\ dl.timedOut => dl.pc # "established"
    /\ dl.cause = "timeout" =>
          /\ dl.pc = "failed" =>
                (dl.kind \in {"suspicious", "handshakeError"} /\ ~dl.rawClosed)
          /\ cfg.action = "fallback" => dl.pc # "closed"

(***************************************************************************)
(* Specification SpecConfig: a configuration from its source to the first  *)
(* connection.  The sources are the API's ProtocolConfig (client: Dial,    *)
(* server: ServerHandshake), a configuration file read by config.Load and  *)
(* run as client or server, and a short link run as client.                *)
(***************************************************************************)
AeadNames == {"aes-128-gcm", "chacha20-poly1305", "none", "bad", ""}
PaddingValues == {0, 5, 15, 101}
ConfigEntries == {"apis-client", "apis-server", "file-client", "file-server", "link-client"}

\* ProtocolConfig / config.Config, the fields the checks look at; table says
\* whether Table or Tables is set (the file and the link derive it from key).
Configurations ==
    [ aead : AeadNames, padMin : PaddingValues, padMax : PaddingValues,
      pure : BOOLEAN, key : {"", "k"}, table : BOOLEAN ]

\* func (c *ProtocolConfig) Validate() error: TRUE when it returns nil.
Validate(c) ==
    /\ c.table
    /\ c.key # ""
    /\ c.aead \in {"aes-128-gcm", "chacha20-poly1305", "none"}
    /\ c.padMin >= 0 /\ c.padMin <= 100
    /\ c.padMax >= 0 /\ c.padMax <= 100
    /\ ~(c.padMax < c.padMin)
    /\ ~(~c.pure /\ c.aead = "none")

\* config.Load after decoding the file: TRUE when it returns the configuration.
Load(c) == ~(~c.pure /\ c.aead = "none")

\* BuildConfigFromShortLink: the configuration built from the payload's key,
\* AEAD and packed-downlink flag (host and port are given).
LinkConfig(c) ==
    [c EXCEPT !.padMin = 5, !.padMax = 15,
              !.aead = IF c.aead = "" THEN "none" ELSE c.aead]
LinkAccepted(c) == c.key # ""

\* sudoku.NewTableWithCustom(cfg.Key, cfg.ASCII, cfg.CustomTable) fails on an
\* empty seed.
NewTableFails(key) == key = ""

\* crypto.NewAEADConn fails on a cipher name it does not know.
NewAEADConnFails(aead) == aead \notin {"aes-128-gcm", "chacha20-poly1305", "none"}

\* ClientHandshake: if !cfg.EnablePureDownlink && cfg.AEAD == "none"
clientRequiresAEAD_unchecked(c) == FALSE
clientRequiresAEAD(c) == ~c.pure /\ c.aead = "none"

\* HandshakeAndUpgradeWithTables: the same test on the server.
serverRequiresAEAD(c) == ~c.pure /\ c.aead = "none"

FreshConfig(entry, c) ==
    [ entry |-> entry, c |-> c,
      pc |-> "new",        \* "new" | "ready" | "rejected" | "connected" | "established" | "failed"
      conns |-> 0 ]        \* connections dialed, or accepted and handed to the handshake

FrameConfig == <<tNow, tField, tVerdict, cfg, wire, srv, connNo, cod, pk, app, wr, dl, dns, sl, uc, dc>>

InitConfig ==
    /\ dc = [pc |-> "off"]
    /\ uc = [pc |-> "off"]
    /\ sl = [pc |-> "off"]
    /\ dns = [pc |-> "off"]
    /\ conf \in { FreshConfig(e, c) : e \in ConfigEntries, c \in Configurations }
    /\ conf.entry \notin {"apis-client", "apis-server"} => conf.c.table
    /\ conf.entry = "link-client" => (conf.c.padMin = 5 /\ conf.c.padMax = 15)
    /\ tNow = Zero64
    /\ tField = Zero64
    /\ tVerdict = "none"
    /\ cfg = [impl |-> "none"]
    /\ wire = <<>>
    /\ srv = [pc |-> "off"]
    /\ connNo = 0
    /\ cod = [on |-> FALSE]
    /\ pk = [on |-> FALSE]
    /\ app = [pc |-> "off"]
    /\ wr = [pc |-> "off"]
    /\ dl = [pc |-> "off"]

\* What happens to the configuration before the program dials or serves:
\* establishBaseConn's validate(cfg) and serverHandshakeCore's cfg.Validate()
\* (the first statement run on a connection the caller accepted); main's
\* config.Load or BuildConfigFromShortLink followed by NewTableWithCustom.
ConfigStage ==
    /\ conf.pc = "new"
    /\ LET c == IF conf.entry = "link-client" THEN LinkConfig(conf.c) ELSE conf.c
           ok == CASE conf.entry \in {"apis-client", "apis-server"} -> Validate(c)
                   [] conf.entry = "link-client" ->
                         LinkAccepted(conf.c) /\ ~NewTableFails(c.key)
                   [] OTHER -> Load(c) /\ ~NewTableFails(c.key)
       IN  conf' = [conf EXCEPT !.c = c, !.pc = IF ok THEN "ready" ELSE "rejected"]
    /\ UNCHANGED FrameConfig

\* The client dials the server (dialBase, establishBaseConn); the server's
\* accept loop hands a connection to the handshake.
Connect ==
    /\ conf.pc = "ready"
    /\ conf' = [conf EXCEPT !.pc = "connected", !.conns = @ + 1]
    /\ UNCHANGED FrameConfig

\* The handshake with a valid peer of the same configuration: the tunnel's
\* ClientHandshake and HandshakeAndUpgradeWithTables test the downlink mode
\* against the cipher and then build the AEAD layer; the API has validated.
HandshakeStage ==
    /\ conf.pc = "connected"
    /\ LET c == conf.c
           bad == CASE conf.entry \in {"file-client", "link-client"} ->
                         clientRequiresAEAD(c) \/ NewAEADConnFails(c.aead)
                    [] conf.entry = "file-server" ->
                         serverRequiresAEAD(c) \/ NewAEADConnFails(c.aead)
                    [] OTHER -> NewAEADConnFails(c.aead)
       IN  conf' = [conf EXCEPT !.pc = IF bad THEN "failed" ELSE "established"]
    /\ UNCHANGED FrameConfig

NextConfig ==
    \/ ConfigStage
    \/ Connect
    \/ HandshakeStage

SpecConfig == InitConfig /\ [][NextConfig]_vars

\* C23: AEAD none is rejected whenever packed downlink is requested: through
\* no entry point (configuration validation, configuration load, client
\* handshake, server handshake) does a connection reach the established state
\* with packed downlink and AEAD none.
C23_NoPackedDownlinkWithoutAEAD ==
    conf.pc = "established" => ~(~conf.c.pure /\ conf.c.aead = "none")

\* C23 witness: a short link asking for packed downlink without a cipher got
\* past the construction of the configuration and was turned away by the
\* client handshake on the connection it had dialed.
C23_LinkRejectedByClientHandshake ==
    /\ conf.entry = "link-client"
    /\ ~conf.c.pure /\ conf.c.aead = "none"
    /\ conf.conns = 1
    /\ conf.pc = "failed"

\* What the rejection rules name: an unknown AEAD, padding_max below
\* padding_min, packed downlink with AEAD none, an empty key, no table source.
RejectionRule(c) ==
    \/ c.aead \notin {"aes-128-gcm", "chacha20-poly1305", "none"}
    \/ c.padMax < c.padMin
    \/ (~c.pure /\ c.aead = "none")
    \/ c.key = ""
    \/ ~c.table

\* C24: a configuration that one of the rejection rules names is rejected
\* before any connection is made: it never gets past the configuration stage,
\* and no connection is dialed or served with it.
C24_BadConfigurationRejectedEarly ==
    RejectionRule(conf.c) => (conf.pc \in {"new", "rejected"} /\ conf.conns = 0)

(***************************************************************************)
(* Specification SpecMiss: a server reads the first bytes of an            *)
(* established connection through sudoku.Conn while the wire carries a     *)
(* group of four hints that is in no decode map.  The callers are the      *)
(* API's ServerHandshake (reading the target address) and the              *)
(* application's handleServerConn (reading the first byte and the          *)
(* address).                                                               *)
(***************************************************************************)
MissCallers == {"ServerHandshake", "handleServerConn"}

\* Four hint bytes whose key is not in table.DecodeMap: one cell four times,
\* and three hints of a grid with a fourth that belongs to none.
BadGroups(ascii) ==
    << [j \in 1..4 |-> HintByte(ascii, <<0, 0>>)],
       <<HintByte(ascii, <<0, 0>>), HintByte(ascii, <<5, 1>>),
         HintByte(ascii, <<10, 2>>), HintByte(ascii, <<15, 0>>)>> >>

\* The wire: what an honest writer made of before, the four hints (with a
\* padding byte among them or not), what the writer made of after.
MissPipe(ascii, before, bad, padded, after) ==
    ConnWriteOut(1, before, ascii, 0).out
    \o (IF padded THEN <<bad[1], bad[2], PaddingPool(ascii)[1], bad[3], bad[4]>> ELSE bad)
    \o ConnWriteOut(2, after, ascii, 0).out

MissConn(ascii, caller, before, bad, padded, after) ==
    [ on |-> TRUE, ascii |-> ascii, rate |-> 0, rng |-> 1,
      written |-> before,
      pipe |-> MissPipe(ascii, before, bad, padded, after),
      rpos |-> 0,
      hintBuf |-> <<>>,
      pendingData |-> <<>>,
      delivered |-> <<>>,
      lenP |-> 0,
      err |-> FALSE,
      split |-> FALSE,
      caller |-> caller,
      badEnd |-> Len(ConnWriteOut(1, before, ascii, 0).out)
                    + (IF padded THEN 5 ELSE 4),   \* the fourth bad hint's place
      returned |-> FALSE,    \* the caller has returned to its own caller
      closed |-> FALSE ]     \* Close() has been called on the connection

InitMiss ==
    /\ dc = [pc |-> "off"]
    /\ uc = [pc |-> "off"]
    /\ sl = [pc |-> "off"]
    /\ dns = [pc |-> "off"]
    /\ conf = [pc |-> "off"]
    /\ dl = [pc |-> "off"]
    /\ wr = [pc |-> "off"]
    /\ app = [pc |-> "off"]
    /\ tNow = Zero64
    /\ tField = Zero64
    /\ tVerdict = "none"
    /\ cfg = [impl |-> "none"]
    /\ wire = <<>>
    /\ srv = [pc |-> "off"]
    /\ connNo = 0
    /\ cod \in { MissConn(a, c, before, BadGroups(a)[g], padded, after) :
                    a \in BOOLEAN, c \in MissCallers,
                    before \in {<<>>, <<1>>, <<0, 2>>},
                    g \in 1..2, padded \in BOOLEAN,
                    after \in {<<>>, <<2>>} }
    /\ pk = [on |-> FALSE]

\* The caller's error branch after a failed read.  ServerHandshake:
\* conn.Close(); return fail(...).  handleServerConn: log.Printf; return.
ReadFailed ==
    /\ cod.err
    /\ ~cod.returned
    /\ cod' = [cod EXCEPT !.returned = TRUE,
                          !.closed = (cod.caller = "ServerHandshake")]
    /\ UNCHANGED FrameCodec

NextMiss ==
    \/ ConnReadCall
    \/ ConnReadChunk
    \/ ReadFailed

SpecMiss == InitMiss /\ [][NextMiss]_vars

\* C26: when four consecutive hint bytes are not in the decode map, read
\* fails with INVALID_SUDOKU_MAP_MISS (as soon as the fourth of them has been
\* taken from the wire), the connection has been closed when the reading
\* code returns, and no plaintext is delivered on that connection after the
\* failure.
C26_MapMissClosesConnection ==
    /\ [](cod.on => (cod.rpos >= cod.badEnd <=> cod.err))
    /\ [](cod.on /\ cod.returned => cod.closed)
    /\ [][cod.on /\ cod.err => cod'.delivered = cod.delivered]_vars

(***************************************************************************)
(* Specification SpecFlush: the writer of the packed codec alone, with     *)
(* calls of Write and calls of Flush in any order.                         *)
(***************************************************************************)
MaxFlushCalls == 3   \* calls of Flush in one run of the writer

\* Flush(), called at any time, also right after another Flush().
FlushCall ==
    /\ pk.flushes < MaxFlushCalls
    /\ LET w == PackedFlushOut(WriterState(<<>>), pk.ascii, pk.interval)
       IN  pk' = [pk EXCEPT !.rng = w.rng, !.cd = w.cd, !.bitBuf = w.bitBuf,
                            !.bitCount = w.bitCount, !.pipe = @ \o w.out,
                            !.flushes = @ + 1, !.last = "flush"]
    /\ UNCHANGED FramePacked

NextFlush ==
    \/ PackedWrite
    \/ FlushCall

SpecFlush == InitPacked /\ [][NextFlush]_vars

\* C27: Flush on the packed writer is idempotent: a call of Flush that
\* follows a call of Flush, with no write in between, puts nothing on the
\* wire and leaves the writer's state (bit accumulator, padding countdown,
\* generator) as the first call left it.
C27_FlushIdempotent ==
    [][(pk.last = "flush" /\ pk'.flushes = pk.flushes + 1) =>
          /\ pk'.pipe = pk.pipe
          /\ pk'.bitBuf = pk.bitBuf /\ pk'.bitCount = pk.bitCount
          /\ pk'.cd = pk.cd /\ pk'.rng = pk.rng]_vars

(***************************************************************************)
(* Specification SpecDNS: dnsutil's resolver.  Resolve runs in two steps,  *)
(* up to the DNS query and from its answer on, so that the clock and the   *)
(* cache may change while the query is out; two calls may be in flight.    *)
(***************************************************************************)
Ttl == 2          \* resolver.ttl, in ticks of the clock
MaxClock == 4     \* the clock stops here

Hosts == {"a.example"}
IPs == {"1.2.3.4", "5.6.7.8"}
NoIP == "nil"
Callers == {1, 2}

\* What one lookupFn call returns: an error, no records, or records (a nil
\* entry among them is possible).
LookupResults ==
    {[err |-> TRUE, ips |-> <<>>], [err |-> FALSE, ips |-> <<>>]}
    \cup { [err |-> FALSE, ips |-> <<ip>>] : ip \in IPs }
    \cup { [err |-> FALSE, ips |-> <<NoIP>>] }

NoCall ==
    [pc |-> "idle", host |-> "", now |-> 0, cachedIP |-> NoIP, expired |-> FALSE,
     dnsErr |-> FALSE, ok |-> FALSE, ip |-> NoIP]

\* newResolver: an empty cache.
InitDNS ==
    /\ dc = [pc |-> "off"]
    /\ uc = [pc |-> "off"]
    /\ sl = [pc |-> "off"]
    /\ conf = [pc |-> "off"]
    /\ dl = [pc |-> "off"]
    /\ wr = [pc |-> "off"]
    /\ app = [pc |-> "off"]
    /\ tNow = Zero64
    /\ tField = Zero64
    /\ tVerdict = "none"
    /\ cfg = [impl |-> "none"]
    /\ wire = <<>>
    /\ srv = [pc |-> "off"]
    /\ connNo = 0
    /\ cod = [on |-> FALSE]
    /\ pk = [on |-> FALSE]
    /\ dns = [pc |-> "on", now |-> 0,
              cache |-> [h \in Hosts |-> [ip |-> NoIP, expiresAt |-> 0]],
              calls |-> [c \in Callers |-> NoCall]]

FrameDNS == <<tNow, tField, tVerdict, cfg, wire, srv, connNo, cod, pk, app, wr, dl, conf, sl, uc, dc>>

\* resolver.lookup: the cached IP (nil without an entry) and whether the
\* entry has expired.
lookup(host, now) ==
    LET entry == dns.cache[host]
    IN  IF entry.ip = NoIP THEN [ip |-> NoIP, expired |-> FALSE]
        ELSE [ip |-> entry.ip, expired |-> now > entry.expiresAt]

\* resolver.store.
store(cache, host, ip, now) ==
    IF ip = NoIP THEN cache
    ELSE [cache EXCEPT ![host] = [ip |-> ip, expiresAt |-> now + Ttl]]

\* lookupConcurrently: the answers in the order they reached the channel;
\* records are collected, and without any the call fails.
lookupConcurrently(answers) ==
    LET good == SelectSeq(answers, LAMBDA r : ~r.err /\ r.ips # <<>>)
        allIPs == IF good = <<>> THEN <<>>
                  ELSE IF Len(good) = 1 THEN good[1].ips
                  ELSE good[1].ips \o good[2].ips
    IN  [err |-> allIPs = <<>>, ips |-> allIPs]

firstNonNilIP(ips) ==
    LET real == SelectSeq(ips, LAMBDA ip : ip # NoIP)
    IN  IF real = <<>> THEN NoIP ELSE real[1]

\* Resolve returns; its local now is gone.
Return(call, ok, ip) == [call EXCEPT !.pc = "done", !.now = 0, !.ok = ok, !.ip = ip]

\* Resolve's branch for a failed lookup (and for an answer without a usable
\* IP): the stale IP if there is one, an error otherwise.
OptimisticFallback_none(call) == Return(call, FALSE, NoIP)
OptimisticFallback(call) ==
    IF call.cachedIP # NoIP
    THEN Return(call, TRUE, call.cachedIP)
    ELSE Return(call, FALSE, NoIP)

\* Resolve(addr) up to the DNS query.  An IP literal is returned as it is, a
\* fresh cache entry is returned without a query.
ResolveBegin ==
    /\ \E c \in Callers :
        /\ dns.calls[c].pc \in {"idle", "done"}
        /\ \/ \E ip \in IPs :
                dns' = [dns EXCEPT !.calls[c] =
                          Return([NoCall EXCEPT !.host = ip], TRUE, ip)]
           \/ \E h \in Hosts :
                LET l == lookup(h, dns.now)
                    call == [NoCall EXCEPT !.host = h, !.now = dns.now,
                                           !.cachedIP = l.ip, !.expired = l.expired]
                IN  dns' = [dns EXCEPT !.calls[c] =
                              IF l.ip # NoIP /\ ~l.expired
                              THEN Return(call, TRUE, l.ip)
                              ELSE [call EXCEPT !.pc = "lookup"]]
    /\ UNCHANGED FrameDNS

\* Resolve from the answer of the DNS query on.  The two lookups answer in
\* either order; with the context cancelled an answer may never reach the
\* channel.
ResolveEnd ==
    /\ \E c \in Callers, r4 \in LookupResults, r6 \in LookupResults,
          order \in {<<1, 2>>, <<2, 1>>}, kept \in SUBSET {1, 2} :
        /\ dns.calls[c].pc = "lookup"
        /\ LET call == dns.calls[c]
               sent == <<r4, r6>>
               arrived == (IF order[1] \in kept THEN <<sent[order[1]]>> ELSE <<>>)
                          \o (IF order[2] \in kept THEN <<sent[order[2]]>> ELSE <<>>)
               res == lookupConcurrently(arrived)
               selected == firstNonNilIP(res.ips)
           IN  IF res.err \/ selected = NoIP
               THEN dns' = [dns EXCEPT !.calls[c] =
                               OptimisticFallback([call EXCEPT !.dnsErr = res.err])]
               ELSE dns' = [dns EXCEPT
                               !.cache = store(dns.cache, call.host, selected, call.now),
                               !.calls[c] = Return(call, TRUE, selected)]
    /\ UNCHANGED FrameDNS

\* Time passes.
ClockTick ==
    /\ dns.now < MaxClock
    /\ dns' = [dns EXCEPT !.now = @ + 1]
    /\ UNCHANGED FrameDNS

NextDNS ==
    \/ ResolveBegin
    \/ ResolveEnd
    \/ ClockTick

SpecDNS == InitDNS /\ [][NextDNS]_vars

\* C28: when the cached entry for a host has expired and the DNS lookup
\* fails, address resolution still succeeds and returns the stale cached IP.
C28_StaleServedOnLookupFailure ==
    \A c \in Callers :
        LET call == dns.calls[c]
        IN  (call.pc = "done" /\ call.cachedIP # NoIP /\ call.expired /\ call.dnsErr) =>
                (call.ok /\ call.ip = call.cachedIP)

\* C28 witness: a call that found an expired entry and whose lookup failed
\* has returned.
C28_ExpiredEntryLookupFailed ==
    \E c \in Callers :
        /\ dns.calls[c].pc = "done"
        /\ dns.calls[c].cachedIP \in IPs
        /\ dns.calls[c].expired
        /\ dns.calls[c].dnsErr
        /\ dns.calls[c].ok

(***************************************************************************)
(* Specification SpecLink: a short link is built from a client             *)
(* configuration and decoded again.  An address is the text of its host,   *)
(* whether the host stands in brackets (an IPv6 literal) and its port; the *)
(* payload of a link is the JSON object, a function from the keys present  *)
(* to their values (base64 and JSON lose nothing of it).                   *)
(***************************************************************************)
HostPort(host, bracketed, port) == [host |-> host, bracketed |-> bracketed, port |-> port]

ClientPorts == {1080, 1081}

\* Client configurations as config.Load returns them.
ClientConfigs ==
    { c \in
      { [ Mode |-> "client", LocalPort |-> lp, ServerAddress |-> a, Key |-> "deadbeef",
        AEAD |-> e, ASCII |-> m, CustomTable |-> t, EnablePureDownlink |-> pure,
        PaddingMin |-> 5, PaddingMax |-> 15, ProxyMode |-> pm ] :
        lp \in ClientPorts,
        a \in { HostPort("8.8.8.8", FALSE, 443), HostPort("example.com", FALSE, 8443),
                HostPort("2001:db8::1", TRUE, 443) },
        e \in {"aes-128-gcm", "chacha20-poly1305", "none"},
        m \in {"prefer_ascii", "prefer_entropy"},
        t \in {"", "xpxvvpvv"},
        pure \in BOOLEAN,
        pm \in {"global", "pac"} } :
      c.EnablePureDownlink \/ c.AEAD # "none" }

\* json.Marshal of shortLinkPayload: h, p, k always; a, e, m, x when not the
\* zero value (omitempty).
MarshalPayload(p) ==
    LET keys == {"h", "p", "k"}
                \cup (IF p.a # "" THEN {"a"} ELSE {})
                \cup (IF p.e # "" THEN {"e"} ELSE {})
                \cup (IF p.m # 0 THEN {"m"} ELSE {})
                \cup (IF p.x THEN {"x"} ELSE {})
    IN  [k \in keys |-> p[k]]

\* json.Unmarshal into a zero shortLinkPayload.
UnmarshalPayload(obj) ==
    [ h |-> IF "h" \in DOMAIN obj THEN obj["h"] ELSE "",
      p |-> IF "p" \in DOMAIN obj THEN obj["p"] ELSE 0,
      k |-> IF "k" \in DOMAIN obj THEN obj["k"] ELSE "",
      a |-> IF "a" \in DOMAIN obj THEN obj["a"] ELSE "",
      e |-> IF "e" \in DOMAIN obj THEN obj["e"] ELSE "",
      m |-> IF "m" \in DOMAIN obj THEN obj["m"] ELSE 0,
      x |-> IF "x" \in DOMAIN obj THEN obj["x"] ELSE FALSE ]

encodeASCII(mode) == IF mode \in {"prefer_ascii", "ascii"} THEN "ascii" ELSE "entropy"
decodeASCII(val) == IF val \in {"ascii", "prefer_ascii"} THEN "prefer_ascii" ELSE "prefer_entropy"

\* deriveAdvertiseAddress with a server address: net.SplitHostPort takes the
\* host out of its brackets.
deriveAdvertiseAddress(c) == [host |-> c.ServerAddress.host, port |-> c.ServerAddress.port]

\* BuildShortLinkFromConfig.
BuildShortLinkFromConfig(c) ==
    LET d == deriveAdvertiseAddress(c)
        mix == IF c.Mode = "client" /\ c.LocalPort > 0 THEN c.LocalPort ELSE 0
    IN  [ scheme |-> "sudoku://",
          payload |-> MarshalPayload(
              [ h |-> d.host, p |-> d.port, k |-> c.Key,
                a |-> encodeASCII(c.ASCII),
                e |-> IF c.AEAD = "" THEN "chacha20-poly1305" ELSE c.AEAD,
                m |-> IF mix = 0 THEN 1080 ELSE mix,
                x |-> ~c.EnablePureDownlink ]) ]

\* BuildConfigFromShortLink; fmt.Sprintf("%s:%d") joins host and port with
\* no brackets.  ok is FALSE for a link that is refused.
BuildConfigFromShortLink(link) ==
    LET p == UnmarshalPayload(link.payload)
    IN  IF link.scheme # "sudoku://" \/ p.h = "" \/ p.p = 0 \/ p.k = ""
        THEN [ok |-> FALSE]
        ELSE [ ok |-> TRUE, Mode |-> "client",
               LocalPort |-> IF p.m = 0 THEN 1080 ELSE p.m,
               ServerAddress |-> HostPort(p.h, FALSE, p.p),
               Key |-> p.k,
               AEAD |-> IF p.e = "" THEN "none" ELSE p.e,
               ASCII |-> decodeASCII(p.a),
               CustomTable |-> "",
               EnablePureDownlink |-> ~p.x,
               PaddingMin |-> 5, PaddingMax |-> 15, ProxyMode |-> "pac" ]

InitLink ==
    /\ dc = [pc |-> "off"]
    /\ uc = [pc |-> "off"]
    /\ dns = [pc |-> "off"]
    /\ conf = [pc |-> "off"]
    /\ dl = [pc |-> "off"]
    /\ wr = [pc |-> "off"]
    /\ app = [pc |-> "off"]
    /\ tNow = Zero64
    /\ tField = Zero64
    /\ tVerdict = "none"
    /\ cfg = [impl |-> "none"]
    /\ wire = <<>>
    /\ srv = [pc |-> "off"]
    /\ connNo = 0
    /\ cod = [on |-> FALSE]
    /\ pk = [on |-> FALSE]
    /\ \E c \in ClientConfigs : sl = [pc |-> "config", cfg |-> c]

FrameLink == <<tNow, tField, tVerdict, cfg, wire, srv, connNo, cod, pk, app, wr, dl, conf, dns, uc, dc>>

\* The link is exported from the configuration.
ExportLink ==
    /\ sl.pc = "config"
    /\ sl' = [pc |-> "link", cfg |-> sl.cfg, link |-> BuildShortLinkFromConfig(sl.cfg)]
    /\ UNCHANGED FrameLink

\* The link is imported.
ImportLink ==
    /\ sl.pc = "link"
    /\ sl' = [pc |-> "decoded", cfg |-> sl.cfg, link |-> sl.link,
              decoded |-> BuildConfigFromShortLink(sl.link)]
    /\ UNCHANGED FrameLink

NextLink ==
    \/ ExportLink
    \/ ImportLink

SpecLink == InitLink /\ [][NextLink]_vars

\* C29: decoding a short link that was built from a client configuration
\* succeeds and recovers the same server address, local port, key, AEAD,
\* ASCII mode, downlink mode and custom table.
C29_ShortLinkRoundTrip ==
    sl.pc = "decoded" =>
        /\ sl.decoded.ok
        /\ sl.decoded.ServerAddress = sl.cfg.ServerAddress
        /\ sl.decoded.LocalPort = sl.cfg.LocalPort
        /\ sl.decoded.Key = sl.cfg.Key
        /\ sl.decoded.AEAD = sl.cfg.AEAD
        /\ sl.decoded.ASCII = sl.cfg.ASCII
        /\ sl.decoded.EnablePureDownlink = sl.cfg.EnablePureDownlink
        /\ sl.decoded.CustomTable = sl.cfg.CustomTable

(***************************************************************************)
(* What the server itself has written to the raw connection during the     *)
(* handshake.  The handshake code writes nothing; the one writer is the    *)
(* packed downlink's Flush, run as a closer when the stack is closed.      *)
(***************************************************************************)
\* NewPackedConn with DefaultConfig's padding (10 and 30 percent, hence
\* padInterval 5) and nothing written, then directionalConn.Close.
ServerWrote(s) ==
    IF s.closersRan
    THEN directionalConnClose(NewPackedConn(TRUE, 5, 1, <<>>)).closeOut
    ELSE <<>>

\* C31: before handshake success the server itself writes no byte to the raw
\* connection on any path, every handshake-failure path included: a peer
\* that fails the handshake receives only what the decoy sends, or nothing.
C31_ServerSilentBeforeSuccess ==
    (cfg.impl # "none" /\ ~srv.upgraded) => ServerWrote(srv) = <<>>

(***************************************************************************)
(* The fallback recorder of the stream codec.                              *)
(***************************************************************************)
\* C32: the recorder holds only raw wire bytes, in the order the codec read
\* them and never a decoded unit; once recording has stopped the codec
\* holds no recorded buffer and nothing is appended to one, whatever is
\* read afterwards.
C32_RecorderRawAndDetached ==
    /\ [](cfg.impl # "none" =>
            /\ \A i \in 1..Len(srv.recorder) :
                  /\ srv.recorder[i] \in 1..srv.taken
                  /\ i > 1 => srv.recorder[i] = srv.recorder[i - 1] + 1
            /\ srv.recording => srv.recorder = srv.fed
            /\ ~srv.recording => srv.recorder = <<>>)
    /\ [][(cfg.impl # "none" /\ srv.selected # 0 /\ ~srv.recording)
             => (~srv'.recording /\ srv'.recorder = <<>>)]_vars

\* The codec has read wire bytes after recording stopped and holds none of
\* them: a legacy or API handshake that went on reading after its prelude.
C32_ReadAfterStopRecording ==
    /\ cfg.impl \in {"legacy", "apis"}
    /\ srv.upgraded /\ ~srv.recording
    /\ srv.fed # <<>> /\ srv.recorder = <<>>
    /\ srv.taken = Len(wire) /\ srv.pending = <<>>

(***************************************************************************)
(* Specification SpecUoTClient: the client's UoT session.  Three           *)
(* goroutines run until the session closes: consumeControl,                *)
(* pipeClientToServer (local UDP socket to tunnel) and pipeServerToClient  *)
(* (tunnel to local UDP socket).  clientAddr is read and written under     *)
(* clientAddrMu, so each access is one step.                               *)
(***************************************************************************)
MaxDatagrams == 3                  \* datagrams the local socket receives
MaxReplies == 3                    \* frames the tunnel delivers
UDPAddrs == {1, 2}                 \* source addresses seen on the local socket
NilAddr == 0

\* A datagram on the local socket: its source, the FRAG byte of its SOCKS5
\* wrapper, and whether the wrapper's address parses.
Datagrams == [from : UDPAddrs, frag : {0, 1}, addrOK : BOOLEAN]

\* decodeSocks5UDPRequest(pkt) returns no error.
decodeSocks5UDPRequest(pkt) == pkt.frag = 0 /\ pkt.addrOK

\* The source of the first datagram in seq that carries a SOCKS5 UDP
\* request (NilAddr when there is none).
RECURSIVE FirstRequestSource(_)
FirstRequestSource(seq) ==
    IF seq = <<>> THEN NilAddr
    ELSE IF decodeSocks5UDPRequest(Head(seq)) THEN Head(seq).from
    ELSE FirstRequestSource(Tail(seq))

InitUoTClient ==
    /\ dc = [pc |-> "off"]
    /\ sl = [pc |-> "off"]
    /\ dns = [pc |-> "off"]
    /\ conf = [pc |-> "off"]
    /\ dl = [pc |-> "off"]
    /\ wr = [pc |-> "off"]
    /\ app = [pc |-> "off"]
    /\ tNow = Zero64
    /\ tField = Zero64
    /\ tVerdict = "none"
    /\ cfg = [impl |-> "none"]
    /\ wire = <<>>
    /\ srv = [pc |-> "off"]
    /\ connNo = 0
    /\ cod = [on |-> FALSE]
    /\ pk = [on |-> FALSE]
    /\ uc = [ pc |-> "run",
              clientAddr |-> NilAddr,  \* uotClientSession.clientAddr
              closed |-> FALSE,        \* closeOnce has run
              ctrl |-> "copy",         \* consumeControl
              c2s |-> "read",          \* pipeClientToServer's position
              pkt |-> [from |-> NilAddr, frag |-> 0, addrOK |-> FALSE],
              s2c |-> "read",          \* pipeServerToClient's position
              dest |-> NilAddr,        \* pipeServerToClient's local clientAddr
              seen |-> <<>>,           \* datagrams read from the local socket
              frames |-> 0,            \* frames read from the tunnel
              sent |-> <<>> ]          \* destinations of WriteToUDP, in order

FrameUoTClient ==
    <<tNow, tField, tVerdict, cfg, wire, srv, connNo, cod, pk, app, wr, dl, conf, dns, sl, dc>>

\* s.close()
closeSession(s) == [s EXCEPT !.closed = TRUE]

\* setClientAddr without the nil test: the last source wins.
setClientAddr_lastWins(s, addr) == [s EXCEPT !.clientAddr = addr]

\* setClientAddr: if s.clientAddr == nil { s.clientAddr = addr }
setClientAddr(s, addr) ==
    IF s.clientAddr = NilAddr THEN [s EXCEPT !.clientAddr = addr] ELSE s

\* pipeClientToServer: ReadFromUDP and decodeSocks5UDPRequest.  A read on
\* the closed socket fails; a datagram that does not decode is skipped.
ReadFromUDP ==
    /\ uc.pc = "run" /\ uc.c2s = "read"
    /\ \/ /\ uc.closed
          /\ uc' = [uc EXCEPT !.c2s = "done"]
       \/ /\ ~uc.closed /\ Len(uc.seen) < MaxDatagrams
          /\ \E pkt \in Datagrams :
               uc' = [uc EXCEPT !.seen = Append(@, pkt), !.pkt = pkt,
                                !.c2s = IF decodeSocks5UDPRequest(pkt)
                                        THEN "decoded" ELSE "read"]
    /\ UNCHANGED FrameUoTClient

\* pipeClientToServer: setClientAddr(addr), then WriteUoTDatagram, which
\* fails on the closed tunnel and may fail on an open one.
ForwardRequest ==
    /\ uc.pc = "run" /\ uc.c2s = "decoded"
    /\ \E ok \in BOOLEAN :
         LET s == setClientAddr(uc, uc.pkt.from)
         IN  IF ok /\ ~uc.closed
             THEN uc' = [s EXCEPT !.c2s = "read"]
             ELSE uc' = [closeSession(s) EXCEPT !.c2s = "done"]
    /\ UNCHANGED FrameUoTClient

\* pipeServerToClient: ReadUoTDatagram, getClientAddr and
\* buildUDPResponsePacket.  A frame that arrives before any client address
\* is known, or that cannot be wrapped, is dropped.
ReadReply ==
    /\ uc.pc = "run" /\ uc.s2c = "read"
    /\ \/ /\ uc.closed \/ uc.frames = MaxReplies
          /\ uc' = [closeSession(uc) EXCEPT !.s2c = "done"]
       \/ /\ ~uc.closed /\ uc.frames < MaxReplies
          /\ \E built \in BOOLEAN :
               uc' = [uc EXCEPT !.frames = @ + 1,
                                !.dest = uc.clientAddr,
                                !.s2c = IF uc.clientAddr # NilAddr /\ built
                                        THEN "write" ELSE "read"]
    /\ UNCHANGED FrameUoTClient

\* pipeServerToClient: s.udpConn.WriteToUDP(resp, clientAddr).
WriteToUDP ==
    /\ uc.pc = "run" /\ uc.s2c = "write"
    /\ IF uc.closed
       THEN uc' = [uc EXCEPT !.s2c = "done"]
       ELSE uc' = [uc EXCEPT !.sent = Append(@, uc.dest), !.s2c = "read"]
    /\ UNCHANGED FrameUoTClient

\* consumeControl: io.Copy returns when the control connection ends.
consumeControl ==
    /\ uc.pc = "run" /\ uc.ctrl = "copy"
    /\ uc' = [closeSession(uc) EXCEPT !.ctrl = "done"]
    /\ UNCHANGED FrameUoTClient

NextUoTClient ==
    ReadFromUDP \/ ForwardRequest \/ ReadReply \/ WriteToUDP \/ consumeControl

SpecUoTClient == InitUoTClient /\ [][NextUoTClient]_vars

RECURSIVE HintsSinceMarker(_, _, _)
HintsSinceMarker(w, i, ascii) ==
    IF i = 0 \/ w[i] = PadMarker(ascii) THEN 0
    ELSE HintsSinceMarker(w, i - 1, ascii) + (IF IsPadding(ascii, w[i]) THEN 0 ELSE 1)

\* C34: every scheduled padding byte of the packed writer differs from the
\* flush marker, in both table modes, and the marker value stands on the
\* wire only where the writer emits a flush marker: right after the hint
\* byte that closes a message ending inside a 6-bit group, that is after
\* two or three hint bytes beyond the last whole block of four.
C34_MarkerOnlyAtFlush ==
    /\ \A ascii \in BOOLEAN : \A k \in 1..Len(PadPool(ascii)) :
          PadPool(ascii)[k] # PadMarker(ascii) /\ IsPadding(ascii, PadPool(ascii)[k])
    /\ pk.on =>
          \A i \in 1..Len(pk.pipe) :
             pk.pipe[i] = PadMarker(pk.ascii) =>
                /\ i > 1
                /\ ~IsPadding(pk.ascii, pk.pipe[i - 1])
                /\ HintsSinceMarker(pk.pipe, i - 1, pk.ascii) % 4 \in {2, 3}

\* The writer pads at every byte, and both scheduled padding and a flush
\* marker are on the wire.
C34_PaddingAndMarkerOnWire ==
    /\ pk.on /\ pk.interval = 1
    /\ \E i \in 1..Len(pk.pipe) : pk.pipe[i] = PadMarker(pk.ascii)
    /\ Cardinality({ i \in 1..Len(pk.pipe) :
                       IsPadding(pk.ascii, pk.pipe[i])
                       /\ pk.pipe[i] # PadMarker(pk.ascii) }) >= 3
    /\ pk.last = "flush"

(***************************************************************************)
(* Specification SpecReader: sudoku.Conn.Read over a connection whose      *)
(* reads can fail.  The stream below returns some bytes, an error, or      *)
(* bytes together with an error; once it has failed it fails again.  The   *)
(* wire is an honest writer's output, or one with a group of four hints    *)
(* that is in no decode map, and the caller may call Read again after any  *)
(* return.                                                                 *)
(***************************************************************************)
ReaderPipes(ascii) ==
    { ConnWriteOut(1, p, ascii, r).out : p \in {<<1>>, <<0, 2>>}, r \in {0, 100} }
    \cup { MissPipe(ascii, before, BadGroups(ascii)[1], padded, <<2>>) :
              before \in {<<>>, <<1>>}, padded \in BOOLEAN }

ReaderConn(ascii, pipe) ==
    [ on |-> TRUE, ascii |-> ascii,
      pipe |-> pipe,         \* the bytes the stream below is going to return
      rpos |-> 0,
      hintBuf |-> <<>>,
      pendingData |-> <<>>,
      delivered |-> <<>>,
      lenP |-> 0,
      ret |-> "none",        \* Read's latest return: "data", "rErr" or "miss"
      uErr |-> FALSE ]       \* the stream below has returned an error

InitReader ==
    /\ dc = [pc |-> "off"]
    /\ uc = [pc |-> "off"]
    /\ sl = [pc |-> "off"]
    /\ dns = [pc |-> "off"]
    /\ conf = [pc |-> "off"]
    /\ dl = [pc |-> "off"]
    /\ wr = [pc |-> "off"]
    /\ app = [pc |-> "off"]
    /\ tNow = Zero64
    /\ tField = Zero64
    /\ tVerdict = "none"
    /\ cfg = [impl |-> "none"]
    /\ wire = <<>>
    /\ srv = [pc |-> "off"]
    /\ connNo = 0
    /\ \E a \in BOOLEAN : \E pipe \in ReaderPipes(a) : cod = ReaderConn(a, pipe)
    /\ pk = [on |-> FALSE]

\* n = copy(p, sc.pendingData); return n, nil
ReaderDeliver(c, n) ==
    [c EXCEPT !.delivered = @ \o Take(c.pendingData, n),
              !.pendingData = Drop(@, n),
              !.lenP = 0, !.ret = "data"]

\* Read(p) is called, after any earlier return: pending bytes are returned
\* at once, otherwise the call enters the loop.
ReaderCall ==
    /\ cod.lenP = 0
    /\ \E n \in 1..MaxReadBuf :
         cod' = IF cod.pendingData # <<>> THEN ReaderDeliver(cod, n)
                ELSE [cod EXCEPT !.lenP = n]
    /\ UNCHANGED FrameCodec

\* One round of Read's loop: nr, rErr := sc.reader.Read(sc.rawBuf); the
\* chunk is decoded (a map miss returns at once), then rErr is returned if
\* there is one, then the decoded bytes.
ReaderChunk ==
    /\ cod.lenP > 0
    /\ \E k \in 0..(IF cod.uErr THEN 0 ELSE Min(IOBufferSize, Len(cod.pipe) - cod.rpos)) :
       \E rErr \in BOOLEAN :
         /\ k = 0 => rErr
         /\ LET chunk == SubSeq(cod.pipe, cod.rpos + 1, cod.rpos + k)
                dec == ConnDecode(chunk, 1, cod.hintBuf, cod.pendingData, cod.ascii)
                c1 == [cod EXCEPT !.rpos = @ + k, !.hintBuf = dec.hintBuf,
                                  !.pendingData = dec.pending,
                                  !.uErr = @ \/ rErr]
            IN  cod' = IF dec.err THEN [c1 EXCEPT !.lenP = 0, !.ret = "miss"]
                       ELSE IF rErr THEN [c1 EXCEPT !.lenP = 0, !.ret = "rErr"]
                       ELSE IF dec.pending # <<>> THEN ReaderDeliver(c1, cod.lenP)
                       ELSE c1
    /\ UNCHANGED FrameCodec

NextReader == ReaderCall \/ ReaderChunk

SpecReader == InitReader /\ [][NextReader]_vars

\* C35: the stream codec's read never withholds or loses decoded plaintext
\* because of an error of the read below it: when Read reports that error,
\* every byte decoded from the wire bytes that came with it has been
\* delivered to the caller.
C35_DecodedDeliveredBeforeError ==
    (cod.on /\ cod.ret = "rErr") => cod.pendingData = <<>>

\* C40: in the stream reader the hint accumulator holds at most three hint
\* bytes whenever a new wire byte is examined, in every reachable state, a
\* state after a decode-miss error included, so that a lookup is made after
\* every fourth hint byte.
C40_HintAccumulatorBelowFour ==
    (cod.on /\ cod.lenP > 0 /\ ~cod.uErr /\ cod.rpos < Len(cod.pipe))
        => Len(cod.hintBuf) <= 3

(***************************************************************************)
(* Specification SpecDial: one dial of the client, by the tunnel           *)
(* package's dialer (Dial and dialUoT over dialBase and ClientHandshake)   *)
(* or by the API's Dial (establishBaseConn).  Every call that can fail     *)
(* fails or succeeds as the environment chooses.                           *)
(***************************************************************************)
Dialers == {"tunnel.Dial", "tunnel.dialUoT", "apis.Dial"}
DialAeads == {"chacha20-poly1305", "none", "rc4"}

\* ProtocolConfig.ValidateClient, as far as the cipher and the downlink go.
ValidateClient(c) ==
    /\ c.aead \in {"aes-128-gcm", "chacha20-poly1305", "none"}
    /\ c.pure \/ c.aead # "none"

InitDial ==
    /\ uc = [pc |-> "off"]
    /\ sl = [pc |-> "off"]
    /\ dns = [pc |-> "off"]
    /\ conf = [pc |-> "off"]
    /\ dl = [pc |-> "off"]
    /\ wr = [pc |-> "off"]
    /\ app = [pc |-> "off"]
    /\ tNow = Zero64
    /\ tField = Zero64
    /\ tVerdict = "none"
    /\ cfg = [impl |-> "none"]
    /\ wire = <<>>
    /\ srv = [pc |-> "off"]
    /\ connNo = 0
    /\ cod = [on |-> FALSE]
    /\ pk = [on |-> FALSE]
    /\ \E d \in Dialers, mask \in BOOLEAN, pure \in BOOLEAN, aead \in DialAeads,
          key \in BOOLEAN :
         dc = [ pc |-> "connect", dialer |-> d,
                mask |-> mask,       \* !DisableHTTPMask
                pure |-> pure, aead |-> aead,
                privateKey |-> key,  \* len(privateKey) > 0
                sock |-> "none",     \* the raw socket: "none", "open", "closed"
                failedAt |-> "" ]    \* the step whose error the dial returned

FrameDial ==
    <<tNow, tField, tVerdict, cfg, wire, srv, connNo, cod, pk, app, wr, dl, conf, dns, sl, uc>>

\* rawConn.Close() / cConn.Close(), which closes the socket under the stack.
CloseSocket(d) == [d EXCEPT !.sock = "closed"]

\* The dial returns the error of step; closes tells whether that return
\* path closes the connection first.  In establishBaseConn the deferred
\* function closes the socket on every return without success.
DialError(d, step, closes) ==
    [(IF closes \/ d.dialer = "apis.Dial" THEN CloseSocket(d) ELSE d)
        EXCEPT !.pc = "failed", !.failedAt = step]

\* establishBaseConn's validate, then the resolution and net.DialTimeout /
\* DialContext: a failure here leaves no socket.
DialServer ==
    /\ dc.pc = "connect"
    /\ \E ok \in BOOLEAN :
         dc' = IF dc.dialer = "apis.Dial" /\ ~ValidateClient(dc)
               THEN [dc EXCEPT !.pc = "failed", !.failedAt = "validate"]
               ELSE IF ~ok THEN [dc EXCEPT !.pc = "failed", !.failedAt = "connect"]
               ELSE [dc EXCEPT !.pc = "mask", !.sock = "open"]
    /\ UNCHANGED FrameDial

\* httpmask.WriteRandomRequestHeader unless the mask is disabled.
WriteMask ==
    /\ dc.pc = "mask"
    /\ \E ok \in BOOLEAN :
         dc' = IF dc.mask /\ ~ok THEN DialError(dc, "mask", TRUE)
               ELSE [dc EXCEPT !.pc = "wrap"]
    /\ UNCHANGED FrameDial

\* ClientHandshake up to the prelude: the configuration test, the codec,
\* crypto.NewAEADConn and the nonce (rand.Read without a private key).
\* The API: pickClientTable and wrapClientConn.
WrapConn ==
    /\ dc.pc = "wrap"
    /\ \E randOK \in BOOLEAN :
         dc' = IF dc.dialer # "apis.Dial" /\ ~dc.pure /\ dc.aead = "none"
               THEN DialError(dc, "config", FALSE)
               ELSE IF NewAEADConnFails(dc.aead)
               THEN DialError(dc, "crypto", dc.dialer = "apis.Dial")
               ELSE IF dc.dialer # "apis.Dial" /\ ~dc.privateKey /\ ~randOK
               THEN DialError(dc, "nonce", FALSE)
               ELSE [dc EXCEPT !.pc = "prelude"]
    /\ UNCHANGED FrameDial

\* cConn.Write(handshake)
WritePrelude ==
    /\ dc.pc = "prelude"
    /\ \E ok \in BOOLEAN :
         dc' = IF ok THEN [dc EXCEPT !.pc = "mode"] ELSE DialError(dc, "prelude", TRUE)
    /\ UNCHANGED FrameDial

\* cConn.Write(modeByte)
WriteMode ==
    /\ dc.pc = "mode"
    /\ \E ok \in BOOLEAN :
         dc' = IF ok THEN [dc EXCEPT !.pc = "target"] ELSE DialError(dc, "mode", TRUE)
    /\ UNCHANGED FrameDial

\* protocol.WriteAddress(cConn, dest) or WriteUoTPreface(conn).
WriteTarget ==
    /\ dc.pc = "target"
    /\ \E ok \in BOOLEAN :
         dc' = IF ok THEN [dc EXCEPT !.pc = "dialed"]
               ELSE [CloseSocket(dc) EXCEPT !.pc = "failed", !.failedAt = "target"]
    /\ UNCHANGED FrameDial

NextDial ==
    DialServer \/ WriteMask \/ WrapConn \/ WritePrelude \/ WriteMode \/ WriteTarget

SpecDial == InitDial /\ [][NextDial]_vars

\* C36: whenever the client dialer fails after the TCP connection to the
\* server has been established (mask, codec or AEAD setup, prelude, mode
\* byte, address or UoT preface), the raw socket has been closed when the
\* error is returned: no failed dial leaves a socket open.
C36_FailedDialClosesSocket ==
    (dc.pc = "failed" /\ dc.sock # "none") => dc.sock = "closed"

(***************************************************************************)
(* The shutdown of a server UoT session (HandleUoTServer's closeAll).      *)
(***************************************************************************)
\* C37: in a server UoT session the shutdown action runs exactly once
\* however the two loops fail, both failing one after the other included:
\* the tunnel and the UDP socket are closed by one run of it, the error
\* hand-off never finds the channel full, and the session returns the first
\* error.
C37_ShutdownRunsOnce ==
    (app.pc \in {"session", "returned"} /\ app.calls # <<>>) =>
        /\ app.nClose = 1
        /\ app.tunnel = "closed" /\ app.udp = "closed"
        /\ Len(app.errCh) <= 1
        /\ app.err = app.calls[1]
        /\ app.pc = "session" => app.errCh = <<app.calls[1]>>
        /\ app.pc = "returned" => app.ret = app.calls[1] /\ app.errCh = <<>>

\* Both loops failed and called closeAll, with different errors, and the
\* session has returned.
C37_BothLoopsFailed ==
    /\ app.pc = "returned"
    /\ Len(app.calls) = 2 /\ app.calls[1] # app.calls[2]
    /\ app.g1 = "done" /\ app.g2 = "done"
    /\ app.ret = app.calls[1]

(***************************************************************************)
(* Specification SpecTimeout: the API server's handshake deadline.         *)
(* serverHandshakeCore validates the configuration and sets the raw        *)
(* connection's read deadline to time.Now() plus HandshakeTimeoutSeconds;  *)
(* the peer is a valid client that sends its handshake promptly, within    *)
(* less than a second of the accept.  Time is counted in ticks.  A read    *)
(* with a deadline that is not after the current time fails with a         *)
(* timeout before it looks at the socket.                                  *)
(***************************************************************************)
TicksPerSecond == 2
MaxTick == 6
TimeoutSeconds == {-1, 0, 1, 2}    \* values of HandshakeTimeoutSeconds
HandshakePortions == 2             \* the prelude and the mode byte

\* ProtocolConfig.Validate, as far as the timeout goes:
\* if c.HandshakeTimeoutSeconds < 0 { return error }
ValidateTimeout(t) == t >= 0

InitTimeout ==
    /\ dc = [pc |-> "off"]
    /\ uc = [pc |-> "off"]
    /\ sl = [pc |-> "off"]
    /\ dns = [pc |-> "off"]
    /\ conf = [pc |-> "off"]
    /\ cfg = [impl |-> "none"]
    /\ \E t \in TimeoutSeconds, now \in 0..1 :
         dl = [ pc |-> "accepted-conn",
                timeout |-> t,       \* cfg.HandshakeTimeoutSeconds
                now |-> now,         \* the clock, in ticks
                startedAt |-> now,   \* when serverHandshakeCore set the deadline
                deadline |-> 0,      \* rawConn's read deadline, in ticks
                arrived |-> 0,       \* portions the client has sent
                got |-> 0 ]          \* portions the server has read
    /\ tNow = Zero64
    /\ tField = Zero64
    /\ tVerdict = "none"
    /\ wire = <<>>
    /\ srv = [pc |-> "off"]
    /\ connNo = 0
    /\ cod = [on |-> FALSE]
    /\ pk = [on |-> FALSE]
    /\ app = [pc |-> "off"]
    /\ wr = [pc |-> "off"]

FrameTimeout ==
    <<tNow, tField, tVerdict, cfg, wire, srv, connNo, cod, pk, app, wr, conf, dns, sl, uc, dc>>

\* cfg.Validate(); deadline := time.Now().Add(timeout * time.Second);
\* rawConn.SetReadDeadline(deadline)
StartHandshake ==
    /\ dl.pc = "accepted-conn"
    /\ dl' = IF ~ValidateTimeout(dl.timeout) THEN [dl EXCEPT !.pc = "invalid config"]
             ELSE [dl EXCEPT !.pc = "reading", !.startedAt = dl.now,
                             !.deadline = dl.now + dl.timeout * TicksPerSecond]
    /\ UNCHANGED FrameTimeout

\* The client sends its next portion, all of them before a second of the
\* handshake has passed.
ClientSends ==
    /\ dl.pc \in {"accepted-conn", "reading"}
    /\ dl.arrived < HandshakePortions
    /\ dl.pc = "reading" => dl.now - dl.startedAt < TicksPerSecond
    /\ dl' = [dl EXCEPT !.arrived = @ + 1]
    /\ UNCHANGED FrameTimeout

\* A read of the handshake returns: a timeout when the deadline is not
\* after the current time, otherwise the portion that has arrived.
HandshakeReadReturns ==
    /\ dl.pc = "reading"
    /\ \/ /\ dl.deadline <= dl.now
          /\ dl' = [dl EXCEPT !.pc = "timeout"]
       \/ /\ dl.deadline > dl.now
          /\ dl.arrived > dl.got
          /\ dl' = [dl EXCEPT !.got = dl.arrived,
                              !.pc = IF dl.arrived = HandshakePortions
                                     THEN "established" ELSE "reading"]
    /\ UNCHANGED FrameTimeout

\* Time passes, but not while a read can return.
ClockAdvances ==
    /\ dl.pc \in {"accepted-conn", "reading"}
    /\ dl.now < MaxTick
    /\ ~(dl.pc = "reading" /\ (dl.deadline <= dl.now \/ dl.arrived > dl.got))
    /\ dl' = [dl EXCEPT !.now = @ + 1]
    /\ UNCHANGED FrameTimeout

NextTimeout == StartHandshake \/ ClientSends \/ HandshakeReadReturns \/ ClockAdvances

SpecTimeout == InitTimeout /\ [][NextTimeout]_vars

\* C38: for every configuration Validate accepts, a timeout of 0 seconds
\* included, the handshake read deadline lies in the future when the
\* handshake starts, so that a client that sends a valid handshake promptly
\* is accepted and never timed out.
C38_DeadlineInFuture ==
    /\ dl.pc \in {"reading", "established", "timeout"} => dl.deadline > dl.startedAt
    /\ dl.pc = "timeout" => dl.arrived < HandshakePortions

(***************************************************************************)
(* The packed writer's bit accumulator between calls.                      *)
(***************************************************************************)
\* C39: when a packed-codec write returns the writer's bit accumulator is
\* empty: a write whose bytes do not fill whole 6-bit groups pads its own
\* trailing bits to a full group and ends with the flush marker, a write of
\* whole groups emits no marker, and no bits are carried from one call to
\* the next.
C39_WriteLeavesNoBits ==
    /\ []((pk.on /\ pk.last = "write") => (pk.bitCount = 0 /\ pk.bitBuf = 0))
    /\ [][(pk.on /\ pk'.written # pk.written) =>
            LET n == Len(pk'.written) - Len(pk.written)
                added == SubSeq(pk'.pipe, Len(pk.pipe) + 1, Len(pk'.pipe))
                marks == { i \in 1..Len(added) : added[i] = PadMarker(pk.ascii) }
            IN  /\ pk.bitCount = 0 /\ pk'.bitCount = 0
                /\ n % 3 # 0 => marks = {Len(added)}
                /\ n % 3 = 0 => marks = {}]_vars

\* Two writes, each ending inside a 6-bit group, have returned.
C39_TwoPartialWrites ==
    /\ pk.on /\ pk.last = "write"
    /\ Len(pk.written) >= 2
    /\ Cardinality({ i \in 1..Len(pk.pipe) : pk.pipe[i] = PadMarker(pk.ascii) }) >= 2
    /\ pk.pipe[Len(pk.pipe)] = PadMarker(pk.ascii)
    /\ pk.bitCount = 0

====
